---- MODULE Spec2Model ----
(***************************************************************************)
(* A model of the craftdesk installation engine: the Installer service     *)
(* (installCraft, installFromGit, registerPlugin, removeCraft,             *)
(* installFromLockfile), the SettingsManager it registers plugins with and *)
(* the remove command that edits craftdesk.json and craftdesk.lock.        *)
(*                                                                         *)
(* The install directory is a function from craft directories              *)
(* <<kindDir, name>> to the content of the directory.  Archives and git    *)
(* repositories are drawn from a small catalogue of artifacts; what a      *)
(* download, a clone, an extraction or a settings write does in one call   *)
(* is given by an environment record env.                                  *)
(***************************************************************************)
EXTENDS Integers, Sequences, FiniteSets, TLC

\* Highest version number a lock entry carries.
MaxVersion == 2

Versions == 1..MaxVersion

\* Value of an optional field that is not set (undefined / null).
Absent == "absent"

Names == {"alpha", "beta", "gamma"}

ComponentTypes == <<"skills", "agents", "commands", "hooks">>

---------------------------------------------------------------------------
(* Files inside a craft directory.  A token is one directory entry: the   *)
(* sub-directory it lives in ("" for the craft directory itself), its     *)
(* name, whether it is a directory, whether its name ends in ".md", and   *)
(* its rank in a directory listing.                                       *)

Tok(dir, name, isDir, md, ord) ==
    [dir |-> dir, name |-> name, isDir |-> isDir, md |-> md, ord |-> ord]

SkillFile == Tok("", "SKILL.md", FALSE, TRUE, 1)
EvilFile  == Tok("", "payload.bin", FALSE, FALSE, 2)
SingleFile == Tok("", "f.md", FALSE, TRUE, 3)
GitDir    == Tok("", ".git", TRUE, FALSE, 4)
SkillA    == Tok("skills", "a", TRUE, FALSE, 5)
SkillX    == Tok("skills", "x", TRUE, FALSE, 6)
SkillsReadme == Tok("skills", "README.md", FALSE, TRUE, 7)
AgentB    == Tok("agents", "b", TRUE, FALSE, 8)
CommandRun == Tok("commands", "run.md", FALSE, TRUE, 9)
CommandNotes == Tok("commands", "notes.txt", FALSE, FALSE, 10)
HookH     == Tok("hooks", "h.md", FALSE, TRUE, 11)

\* An optional value: None is undefined / null, Some(v) a value that is set.
None == [has |-> FALSE]

Some(v) == [has |-> TRUE, v |-> v]

\* Content of a JSON file on disk: missing, not parseable, or parsed.
Missing == [kind |-> "none"]

Garbage == [kind |-> "garbage"]

\* Parsed content of a .claude-plugin/plugin.json file.
ManifestA ==
    [kind |-> "json",
     components |-> Some([skills |-> Some(<<"a">>), agents |-> None,
                          commands |-> None, hooks |-> None]),
     mcpServers |-> [kind |-> "inline", servers |-> <<"srv1", "srv2">>]]

ManifestB ==
    [kind |-> "json",
     components |-> Some([skills |-> None, agents |-> None,
                          commands |-> Some(<<"deploy.md">>),
                          hooks |-> Some(<<>>)]),
     mcpServers |-> [kind |-> "file"]]

ManifestC ==
    [kind |-> "json", components |-> None, mcpServers |-> [kind |-> "absent"]]

McpFile(servers) == [kind |-> "json", servers |-> servers]

\* The catalogue of archives and repositories.  entries and manifest are
\* the files at the top of the artifact, mcpFile the content of the
\* .mcp.json file it ships, sub the artifact found in its sub-directory
\* "pkg" and hasFile whether it holds the single file "f.md".
Artifact(id) ==
    CASE id = "skillpkg" ->
           [entries |-> {SkillFile}, manifest |-> Missing, mcpFile |-> Missing,
            sub |-> Absent, hasFile |-> TRUE]
      [] id = "plugA" ->
           [entries |-> {SkillA, SkillX, SkillsReadme, AgentB, CommandNotes},
            manifest |-> ManifestA, mcpFile |-> Missing,
            sub |-> Absent, hasFile |-> FALSE]
      [] id = "plugB" ->
           [entries |-> {CommandRun, HookH}, manifest |-> ManifestB,
            mcpFile |-> McpFile(<<"srv3">>), sub |-> "plugA", hasFile |-> TRUE]
      [] id = "widgetpkg" ->
           [entries |-> {SkillFile}, manifest |-> ManifestC, mcpFile |-> Missing,
            sub |-> Absent, hasFile |-> FALSE]
      [] id = "plugG" ->
           [entries |-> {HookH}, manifest |-> Garbage, mcpFile |-> Garbage,
            sub |-> Absent, hasFile |-> FALSE]
      [] OTHER ->
           [entries |-> {EvilFile}, manifest |-> Missing, mcpFile |-> Missing,
            sub |-> Absent, hasFile |-> FALSE]

ArtifactIds == {"skillpkg", "plugA", "plugB", "widgetpkg", "plugG", "tampered"}

\* What the download URL or the git URL of a craft can deliver.
Remote(name) ==
    IF name = "alpha" THEN {"skillpkg", "tampered"}
    ELSE IF name = "beta" THEN {"plugA", "plugB", "plugG"}
    ELSE {"widgetpkg", "tampered"}


\* SHA-256 of an archive, as recorded in the integrity field of a lock entry.
Digest(id) ==
    CASE id = "skillpkg" -> "sha256-skillpkg"
      [] id = "plugA" -> "sha256-plugA"
      [] id = "plugB" -> "sha256-plugB"
      [] id = "widgetpkg" -> "sha256-widgetpkg"
      [] id = "plugG" -> "sha256-plugG"
      [] OTHER -> "sha256-tampered"

---------------------------------------------------------------------------
(* The install directory.                                                  *)

KindDirs == {"skills", "agents", "commands", "hooks", "plugins", "crafts"}

Dirs == KindDirs \X Names

\* A craft directory that does not exist.
EmptyDir ==
    [present |-> FALSE, archive |-> FALSE, tmp |-> FALSE, entries |-> {},
     manifest |-> Missing, mcpFile |-> Missing, meta |-> None]

\* getTypeDirectory with the case for hooks missing.
getTypeDirectory_NoHookCase(type) ==
    CASE type = "skill" -> "skills"
      [] type = "agent" -> "agents"
      [] type = "command" -> "commands"
      [] type = "plugin" -> "plugins"
      [] OTHER -> "crafts"

getTypeDirectory(type) ==
    CASE type = "skill" -> "skills"
      [] type = "agent" -> "agents"
      [] type = "command" -> "commands"
      [] type = "hook" -> "hooks"
      [] type = "plugin" -> "plugins"
      [] OTHER -> "crafts"

\* path.join(installDir, typeDir, name)
CraftDir(type, name) == <<getTypeDirectory(type), name>>

\* fs.ensureDir(craftDir)
ensureDir(dir) == [dir EXCEPT !.present = TRUE]

\* Writing the files of an artifact over a directory: a file of the same
\* path is replaced, every other file of the directory stays.
Overlay(dir, art, files) ==
    [dir EXCEPT !.entries = @ \cup files,
                !.manifest = IF art.manifest.kind = "none" THEN @
                             ELSE art.manifest,
                !.mcpFile = IF art.mcpFile.kind = "none" THEN @
                            ELSE art.mcpFile]

\* A copy or an extraction that throws after it wrote some of the files:
\* the entries are written, the plugin.json and .mcp.json files are not.
PartialOverlay(dir, files) == [dir EXCEPT !.entries = @ \cup files]

---------------------------------------------------------------------------
(* Registry installation.                                                  *)

\* downloadFile: the request fails before the file is opened ("neterr"),
\* the stream fails after the file was opened ("partial"), or the archive
\* out is written completely.
downloadFile(dir, out) ==
    IF out = "neterr" THEN [dir |-> dir, ok |-> FALSE]
    ELSE IF out = "partial"
         THEN [dir |-> [dir EXCEPT !.archive = TRUE], ok |-> FALSE]
         ELSE [dir |-> [dir EXCEPT !.archive = TRUE], ok |-> TRUE]

\* utils/crypto verifyFileChecksum(archivePath, integrity)
verifyFileChecksum(id, integrity) == Digest(id) = integrity

\* extractArchive(archivePath, craftDir) with zip.extractAllTo(dir, true)
extractArchive(dir, id, out) ==
    IF out = "ok"
    THEN [dir |-> Overlay(dir, Artifact(id), Artifact(id).entries), ok |-> TRUE]
    ELSE IF out = "partial"
         THEN [dir |-> PartialOverlay(dir, Artifact(id).entries), ok |-> FALSE]
         ELSE [dir |-> dir, ok |-> FALSE]

\* A clean-up that leaves archive.zip in place.
removeArchive_Forgotten(dir) == dir

\* fs.remove(archivePath)
removeArchive(dir) == [dir EXCEPT !.archive = FALSE]

\* The registry branch with the extraction moved in front of the check.
installFromRegistry_ExtractFirst(dir0, entry, env) ==
    LET dl == downloadFile(dir0, env.download)
        ex == extractArchive(dl.dir, env.download, env.extract)
        skip == entry.integrity = Absent
        isValid == IF skip \/ ~dl.ok THEN TRUE
                   ELSE verifyFileChecksum(env.download, entry.integrity)
        vstep == IF skip THEN "verify:skipped"
                 ELSE IF isValid THEN "verify:valid" ELSE "verify:invalid"
    IN  IF ~dl.ok
        THEN [dir |-> dl.dir, ok |-> FALSE, err |-> "download",
              steps |-> <<"download:throw">>]
        ELSE IF ~ex.ok
        THEN [dir |-> ex.dir, ok |-> FALSE, err |-> "extract",
              steps |-> <<"download", "extract:throw">>]
        ELSE IF ~isValid
        THEN [dir |-> removeArchive(ex.dir), ok |-> FALSE, err |-> "checksum",
              steps |-> <<"download", "extract", vstep, "removeArchive">>]
        ELSE [dir |-> removeArchive(ex.dir), ok |-> TRUE, err |-> "",
              steps |-> <<"download", "extract", vstep, "removeArchive">>]

\* The else branch of installCraft: download, verify, extract, clean up.
installFromRegistry(dir0, entry, env) ==
    LET dl == downloadFile(dir0, env.download)
        skip == entry.integrity = Absent
        isValid == IF skip \/ ~dl.ok THEN TRUE
                   ELSE verifyFileChecksum(env.download, entry.integrity)
        vstep == IF skip THEN "verify:skipped"
                 ELSE IF isValid THEN "verify:valid" ELSE "verify:invalid"
        ex == extractArchive(dl.dir, env.download, env.extract)
    IN  IF ~dl.ok
        THEN [dir |-> dl.dir, ok |-> FALSE, err |-> "download",
              steps |-> <<"download:throw">>]
        ELSE IF ~isValid
        THEN [dir |-> removeArchive(dl.dir), ok |-> FALSE, err |-> "checksum",
              steps |-> <<"download", vstep, "removeArchive">>]
        ELSE IF ~ex.ok
        THEN [dir |-> ex.dir, ok |-> FALSE, err |-> "extract",
              steps |-> <<"download", vstep, "extract:throw">>]
        ELSE [dir |-> removeArchive(ex.dir), ok |-> TRUE, err |-> "",
              steps |-> <<"download", vstep, "extract", "removeArchive">>]

---------------------------------------------------------------------------
(* Git installation.                                                       *)

\* The directory listing that the copy loop of installFromGit reads: the
\* whole clone (with its .git directory) or the sub-directory entry.path.
SourceListing(id, entry) ==
    IF entry.path = Absent
    THEN [found |-> TRUE, art |-> Artifact(id),
          files |-> Artifact(id).entries \cup {GitDir}]
    ELSE IF Artifact(id).sub = Absent
         THEN [found |-> FALSE, art |-> Artifact(id), files |-> {}]
         ELSE [found |-> TRUE, art |-> Artifact(Artifact(id).sub),
               files |-> Artifact(Artifact(id).sub).entries]

\* file !== '.tmp-git' && file !== '.git'
CopiedFiles(files) ==
    {t \in files : ~(t.dir = "" /\ t.name \in {".tmp-git", ".git"})}

\* git fetch --unshallow for every shallow clone, pinned to a commit or not.
needsUnshallow_EveryShallowClone(entry, env) == env.shallow

\* if (entry.commit) { isShallow = pathExists(.git/shallow); if (isShallow)
\* git fetch --unshallow }
needsUnshallow(entry, env) == entry.commit # Absent /\ env.shallow

\* The body of the try block of installFromGit, from the clone on.
gitCloneAndCopy(dir0, entry, env) ==
    LET cloned == [dir0 EXCEPT !.tmp = TRUE]
        hasCommit == entry.commit # Absent
        unshallow == needsUnshallow(entry, env)
        s1 == <<"clone">>
        s2 == IF unshallow THEN Append(s1, "unshallow") ELSE s1
        s3 == IF hasCommit THEN Append(s2, "checkout") ELSE s2
        src == SourceListing(env.clone, entry)
    IN  IF env.clone = "fail"
        THEN [dir |-> dir0, ok |-> FALSE, err |-> "clone",
              steps |-> <<"clone:throw">>]
        ELSE IF unshallow /\ ~env.unshallowOk
        THEN [dir |-> cloned, ok |-> FALSE, err |-> "unshallow",
              steps |-> <<"clone", "unshallow:throw">>]
        ELSE IF hasCommit /\ ~env.checkoutOk
        THEN [dir |-> cloned, ok |-> FALSE, err |-> "checkout",
              steps |-> Append(s2, "checkout:throw")]
        ELSE IF entry.file # Absent
        THEN IF ~Artifact(env.clone).hasFile
             THEN [dir |-> cloned, ok |-> FALSE, err |-> "filenotfound",
                   steps |-> Append(s3, "file:missing")]
             ELSE IF env.copy # "ok"
             THEN [dir |-> cloned, ok |-> FALSE, err |-> "copy",
                   steps |-> Append(s3, "copyFile:throw")]
             ELSE [dir |-> PartialOverlay(cloned, {SingleFile}), ok |-> TRUE,
                   err |-> "", steps |-> Append(s3, "copyFile")]
        ELSE IF ~src.found
        THEN [dir |-> cloned, ok |-> FALSE, err |-> "readdir",
              steps |-> Append(s3, "readdir:throw")]
        ELSE IF env.copy = "throw"
        THEN [dir |-> cloned, ok |-> FALSE, err |-> "copy",
              steps |-> Append(s3, "copy:throw")]
        ELSE IF env.copy = "partial"
        THEN [dir |-> PartialOverlay(cloned, CopiedFiles(src.files)),
              ok |-> FALSE, err |-> "copy", steps |-> Append(s3, "copy:throw")]
        ELSE [dir |-> Overlay(cloned, src.art, CopiedFiles(src.files)),
              ok |-> TRUE, err |-> "",
              steps |-> Append(s3, IF entry.path = Absent THEN "copyRepo"
                                   ELSE "copyPath")]

\* fs.remove(tempDir)
removeTemp(dir) == [dir EXCEPT !.tmp = FALSE]

\* installFromGit with the clean-up at the end of the try block instead
\* of in a finally block.
installFromGit_NoFinally(dir0, entry, env) ==
    LET r == gitCloneAndCopy(dir0, entry, env)
    IN  IF r.ok
        THEN [r EXCEPT !.dir = removeTemp(r.dir),
                       !.steps = Append(r.steps, "removeTemp")]
        ELSE r

\* installFromGit: try { clone, checkout, copy } finally { remove tempDir }
installFromGit(dir0, entry, env) ==
    LET r == gitCloneAndCopy(dir0, entry, env)
    IN  [r EXCEPT !.dir = removeTemp(r.dir),
                  !.steps = Append(r.steps, "removeTemp")]

\* createMetadata that counts the installations in the version it writes.
createMetadata_CountsInstalls(dir, name, entry) ==
    [dir EXCEPT !.meta =
        Some([name |-> name,
              version |-> IF dir.meta.has THEN dir.meta.v.version + 1
                          ELSE entry.version,
              type |-> entry.type])]

\* createMetadata writes .craftdesk-metadata.json
createMetadata(dir, name, entry) ==
    [dir EXCEPT !.meta = Some([name |-> name, version |-> entry.version,
                               type |-> entry.type])]

---------------------------------------------------------------------------
(* The settings file .claude/settings.json.                                *)

Servers == {"srv1", "srv2", "srv3"}

\* createDefaultSettings
DefaultSettings == [plugins |-> [n \in Names |-> None], mcpServers |-> {}]

\* readSettings: the contents of the file, or, when the file is missing,
\* cannot be read or does not parse, the default settings.
readSettings(file, readable) == IF readable THEN file ELSE DefaultSettings

\* writeSettings(settings): a failed write throws and leaves the file as
\* it was.
writeSettings(file, st, writeOk) ==
    IF writeOk THEN [st |-> st, ok |-> TRUE] ELSE [st |-> file, ok |-> FALSE]

\* SettingsManager.registerPlugin(config); readable is whether readSettings
\* can read and parse the file, writeOk whether writeSettings succeeds.
SMregisterPluginFrom(file, config, readable, writeOk) ==
    writeSettings(file,
                  [readSettings(file, readable)
                     EXCEPT !.plugins[config.name] = Some(config)],
                  writeOk)

\* SettingsManager.unregisterPlugin(pluginName): nothing is written when
\* the settings that were read do not hold the plugin.
SMunregisterPluginFrom(file, name, readable, writeOk) ==
    IF ~readSettings(file, readable).plugins[name].has
    THEN [st |-> file, ok |-> TRUE]
    ELSE writeSettings(file,
                       [readSettings(file, readable)
                          EXCEPT !.plugins[name] = None],
                       writeOk)

\* SettingsManager.registerMCPServer(serverName, config)
SMregisterMCPServerFrom(file, server, readable, writeOk) ==
    writeSettings(file,
                  [readSettings(file, readable)
                     EXCEPT !.mcpServers = @ \cup {server}],
                  writeOk)

\* SettingsManager.unregisterMCPServer(serverName)
SMunregisterMCPServerFrom(file, server, readable, writeOk) ==
    IF server \notin readSettings(file, readable).mcpServers
    THEN [st |-> file, ok |-> TRUE]
    ELSE writeSettings(file,
                       [readSettings(file, readable)
                          EXCEPT !.mcpServers = @ \ {server}],
                       writeOk)

\* The three calls the Installer makes, on a settings file that can be read.
SMregisterPlugin(st, config, writeOk) ==
    SMregisterPluginFrom(st, config, TRUE, writeOk)

SMunregisterPlugin(st, name, writeOk) ==
    SMunregisterPluginFrom(st, name, TRUE, writeOk)

SMregisterMCPServer(st, server, writeOk) ==
    SMregisterMCPServerFrom(st, server, TRUE, writeOk)

---------------------------------------------------------------------------
(* Plugin registration.                                                    *)

RECURSIVE ListingOf(_)
\* The names of a set of directory entries in listing order.
ListingOf(S) ==
    IF S = {} THEN <<>>
    ELSE LET t == CHOOSE x \in S : \A y \in S : x.ord <= y.ord
         IN  <<t.name>> \o ListingOf(S \ {t})

\* readPluginManifest: null when the file is missing or does not parse.
readPluginManifest(dir) ==
    IF dir.manifest.kind = "json" THEN Some(dir.manifest) ELSE None

\* The items scanPluginComponents finds for one component type.
ScanType(dir, type) ==
    LET inDir == {t \in dir.entries : t.dir = type}
        items == IF type \in {"commands", "hooks"}
                 THEN ListingOf({t \in inDir : ~t.isDir /\ t.md})
                 ELSE ListingOf({t \in inDir : t.isDir})
    IN  IF inDir # {} /\ Len(items) > 0 THEN Some(items) ELSE None

scanPluginComponents(dir) ==
    [skills |-> ScanType(dir, "skills"), agents |-> ScanType(dir, "agents"),
     commands |-> ScanType(dir, "commands"), hooks |-> ScanType(dir, "hooks")]

\* The declared list of one component type, None when not declared.
Declared(manifest, type) ==
    IF manifest.has /\ manifest.v.components.has
    THEN manifest.v.components.v[type]
    ELSE None

\* A merge in which the scanned list wins over the declared one.
mergeOne_ScannedWins(declared, scanned) ==
    IF scanned.has THEN scanned ELSE declared

\* Start with the scanned components, override with the manifest's.
mergeOne(declared, scanned) == IF declared.has THEN declared ELSE scanned

mergeComponents(manifest, scanned) ==
    [t \in {"skills", "agents", "commands", "hooks"} |->
        mergeOne(Declared(manifest, t), scanned[t])]

\* A pluginConfig that takes the flag from the dependencies instead of
\* from installedAs.
PluginConfig_FlagFromDependencies(name, entry, components) ==
    [name |-> name, version |-> entry.version, components |-> components,
     dependencies |-> entry.dependencies,
     isDependency |-> (entry.dependencies = {})]

\* The pluginConfig record of registerPlugin.
PluginConfig(name, entry, components) ==
    [name |-> name, version |-> entry.version, components |-> components,
     dependencies |-> entry.dependencies,
     isDependency |-> (entry.installedAs = "dependency")]

\* The MCP servers registerPlugin goes through, in order, and whether
\* reading them failed (a .mcp.json that does not parse).
McpServersOf(manifest, dir) ==
    IF ~manifest.has \/ manifest.v.mcpServers.kind = "absent"
    THEN [servers |-> <<>>, readFailed |-> FALSE]
    ELSE IF manifest.v.mcpServers.kind = "inline"
    THEN [servers |-> manifest.v.mcpServers.servers, readFailed |-> FALSE]
    ELSE IF dir.mcpFile.kind = "none"
    THEN [servers |-> <<>>, readFailed |-> FALSE]
    ELSE IF dir.mcpFile.kind = "garbage"
    THEN [servers |-> <<>>, readFailed |-> TRUE]
    ELSE [servers |-> dir.mcpFile.servers, readFailed |-> FALSE]

RECURSIVE registerServers(_, _, _, _)
\* The loop over the MCP servers; write number failAt of the whole
\* registration throws (0: none does), k is the number of the next write.
registerServers(st, servers, k, failAt) ==
    IF servers = <<>> THEN [st |-> st, ok |-> TRUE, steps |-> <<>>]
    ELSE LET r == SMregisterMCPServer(st, Head(servers), k # failAt)
         IN  IF ~r.ok
             THEN [st |-> r.st, ok |-> FALSE,
                   steps |-> <<"registerMCPServer:throw">>]
             ELSE LET rest == registerServers(r.st, Tail(servers), k + 1, failAt)
                  IN  [rest EXCEPT !.steps = <<"registerMCPServer">> \o @]

\* The try block of Installer.registerPlugin; thrown is whether an
\* exception leaves the block.
registerPluginBody(st, name, entry, dir, failAt) ==
    LET manifest == readPluginManifest(dir)
        components == mergeComponents(manifest, scanPluginComponents(dir))
        reg == SMregisterPlugin(st, PluginConfig(name, entry, components),
                                failAt # 1)
        mcp == McpServersOf(manifest, dir)
        srv == registerServers(reg.st, mcp.servers, 2, failAt)
        fileRef == manifest.has /\ manifest.v.mcpServers.kind = "file"
    IN  IF ~reg.ok
        THEN [st |-> reg.st, thrown |-> TRUE, warned |-> FALSE,
              steps |-> <<"registerPlugin:throw">>]
        ELSE [st |-> srv.st,
              thrown |-> ~srv.ok /\ ~fileRef,
              warned |-> mcp.readFailed \/ (~srv.ok /\ fileRef),
              steps |-> <<"registerPlugin">> \o srv.steps]

\* registerPlugin without its catch block.
registerPlugin_Rethrow(st, name, entry, dir, failAt) ==
    LET b == registerPluginBody(st, name, entry, dir, failAt)
    IN  [st |-> b.st, ok |-> ~b.thrown, warned |-> b.warned,
         steps |-> b.steps]

\* Installer.registerPlugin: the catch block turns an exception into a
\* warning.
registerPlugin(st, name, entry, dir, failAt) ==
    LET b == registerPluginBody(st, name, entry, dir, failAt)
    IN  [st |-> b.st, ok |-> TRUE, warned |-> b.warned \/ b.thrown,
         steps |-> b.steps]

---------------------------------------------------------------------------
(* The Installer's public operations.  fs is the install directory, st    *)
(* the settings file.                                                      *)

\* A plugin registration attempted for crafts of every kind.
registersPlugin_EveryKind(entry) == TRUE

\* if (entry.type === 'plugin') { await this.registerPlugin(...) }
registersPlugin(entry) == entry.type = "plugin"

\* installCraft: src is what the git or the registry branch returned,
\* withMeta the craft directory after createMetadata, reg what
\* registerPlugin returned (plugins only).
installCraft(fs, st, name, entry, env) ==
    LET d == CraftDir(entry.type, name)
        Result(src, withMeta, reg) ==
            IF ~src.ok
            THEN [fs |-> [fs EXCEPT ![d] = src.dir], st |-> st, ok |-> FALSE,
                  err |-> src.err, warned |-> FALSE,
                  steps |-> <<"ensureDir">> \o src.steps]
            ELSE IF ~reg.ok
            THEN [fs |-> [fs EXCEPT ![d] = withMeta], st |-> reg.st,
                  ok |-> FALSE, err |-> "register", warned |-> reg.warned,
                  steps |-> <<"ensureDir">> \o src.steps \o <<"metadata">>
                            \o reg.steps]
            ELSE [fs |-> [fs EXCEPT ![d] = withMeta], st |-> reg.st,
                  ok |-> TRUE, err |-> "",
                  warned |-> reg.warned \/ (entry.git = Absent
                                             /\ entry.integrity = Absent),
                  steps |-> <<"ensureDir">> \o src.steps \o <<"metadata">>
                            \o reg.steps]
        Register(src, withMeta) ==
            Result(src, withMeta,
                   IF registersPlugin(entry)
                   THEN registerPlugin(st, name, entry, withMeta,
                                       env.settingsFailAt)
                   ELSE [st |-> st, ok |-> TRUE, warned |-> FALSE,
                         steps |-> <<>>])
        Describe(src) == Register(src, createMetadata(src.dir, name, entry))
    IN  Describe(IF entry.git # Absent
                 THEN installFromGit(ensureDir(fs[d]), entry, env)
                 ELSE installFromRegistry(ensureDir(fs[d]), entry, env))

\* removeCraft that unregisters the plugin before it looks at the directory.
removeCraft_UnregisterAlways(fs, st, name, type, writeOk) ==
    LET d == CraftDir(type, name)
        un == IF type = "plugin" THEN SMunregisterPlugin(st, name, writeOk)
              ELSE [st |-> st, ok |-> TRUE]
    IN  IF fs[d].present
        THEN [fs |-> [fs EXCEPT ![d] = EmptyDir], st |-> un.st, ok |-> TRUE,
              warned |-> ~un.ok, steps |-> <<"removeDir">>]
        ELSE [fs |-> fs, st |-> un.st, ok |-> TRUE, warned |-> TRUE,
              steps |-> <<"notInstalled">>]

removeCraft(fs, st, name, type, writeOk) ==
    LET d == CraftDir(type, name)
        un == IF type = "plugin" THEN SMunregisterPlugin(st, name, writeOk)
              ELSE [st |-> st, ok |-> TRUE]
    IN  IF fs[d].present
        THEN [fs |-> [fs EXCEPT ![d] = EmptyDir], st |-> un.st, ok |-> TRUE,
              warned |-> ~un.ok,
              steps |-> IF type = "plugin"
                        THEN <<IF un.ok THEN "unregisterPlugin"
                               ELSE "unregisterPlugin:throw", "removeDir">>
                        ELSE <<"removeDir">>]
        ELSE [fs |-> fs, st |-> st, ok |-> TRUE, warned |-> TRUE,
              steps |-> <<"notInstalled">>]

RECURSIVE installLoop_KeepGoing(_, _, _, _)
\* A loop that records a failure and goes on with the next craft.
installLoop_KeepGoing(fs, st, crafts, envs) ==
    IF crafts = <<>>
    THEN [fs |-> fs, st |-> st, ok |-> TRUE, err |-> "", attempted |-> <<>>,
          outcomes |-> <<>>]
    ELSE LET c == Head(crafts)
             After(r) ==
                 [installLoop_KeepGoing(r.fs, r.st, Tail(crafts), Tail(envs))
                    EXCEPT !.attempted = <<c.name>> \o @,
                           !.outcomes = <<r.err>> \o @,
                           !.ok = r.ok /\ @,
                           !.err = IF r.ok THEN @ ELSE r.err]
         IN  After(installCraft(fs, st, c.name, c.entry, Head(envs)))

RECURSIVE installLoop(_, _, _, _)
\* The for loop of installFromLockfile over Object.entries(lockfile.crafts):
\* crafts is the rest of the entries, envs what each installCraft meets.
installLoop(fs, st, crafts, envs) ==
    IF crafts = <<>>
    THEN [fs |-> fs, st |-> st, ok |-> TRUE, err |-> "", attempted |-> <<>>,
          outcomes |-> <<>>]
    ELSE LET c == Head(crafts)
             After(r) ==
                 IF ~r.ok
                 THEN [fs |-> r.fs, st |-> r.st, ok |-> FALSE, err |-> r.err,
                       attempted |-> <<c.name>>, outcomes |-> <<r.err>>]
                 ELSE [installLoop(r.fs, r.st, Tail(crafts), Tail(envs))
                         EXCEPT !.attempted = <<c.name>> \o @,
                                !.outcomes = <<r.err>> \o @]
         IN  After(installCraft(fs, st, c.name, c.entry, Head(envs)))

installFromLockfile(fs, st, crafts, envs) == installLoop(fs, st, crafts, envs)

\* typeDirs of listInstalled
ListedDirs == {"skills", "agents", "commands", "hooks", "plugins"}

\* Installer.listInstalled: one item for every directory of a listed type
\* directory that holds a metadata record; the name is the name of the
\* directory, version and type are read from the record.
listInstalled(fs) ==
    {[name |-> d[2], version |-> fs[d].meta.v.version,
      type |-> fs[d].meta.v.type] :
        d \in {x \in Dirs : /\ x[1] \in ListedDirs
                            /\ fs[x].present /\ fs[x].meta.has}}

---------------------------------------------------------------------------
(* The remove command.  m is craftdesk.json, l is craftdesk.lock.          *)

DepFields ==
    <<"dependencies", "devDependencies", "optionalDependencies",
      "peerDependencies">>

\* readCraftDeskJson / readCraftDeskLock: null when the file cannot be read.
readCraftDeskJson(m) == IF m.exists THEN Some(m) ELSE None

readCraftDeskLock(l) == IF l.exists THEN Some(l) ELSE None

\* The plugins of the tree that list craftName in their dependencies, each
\* as it is printed: name@version.
Dependents(l, craftName) ==
    IF l.exists /\ l.pluginTree.has
    THEN {<<p, l.pluginTree.v[p].v.version>> :
            p \in {q \in Names : /\ l.pluginTree.v[q].has
                                 /\ craftName \in l.pluginTree.v[q].v.dependencies}}
    ELSE {}

\* craftDeskJson[field] && craftDeskJson[field][craftName]
InField(m, field, craftName) ==
    m.fields[field].has /\ craftName \in m.fields[field].v

\* The first dependency field that holds craftName, 0 when none does.
FoundInField(m, craftName) ==
    IF \E i \in 1..Len(DepFields) : InField(m, DepFields[i], craftName)
    THEN CHOOSE i \in 1..Len(DepFields) :
            /\ InField(m, DepFields[i], craftName)
            /\ \A j \in 1..(i - 1) : ~InField(m, DepFields[j], craftName)
    ELSE 0

\* delete craftDeskJson[field][craftName], and the field when it is empty
DeleteFromField(m, field, craftName) ==
    [m EXCEPT !.fields[field] =
        IF @.v \ {craftName} = {} THEN None ELSE Some(@.v \ {craftName})]

\* Lines 86-103: the craft leaves crafts and pluginTree, and every
\* remaining node loses the edges that name it.
PruneLockfile(l, craftName) ==
    [l EXCEPT
       !.crafts[craftName] = None,
       !.pluginTree =
          IF ~@.has THEN @
          ELSE Some([p \in Names |->
                 IF p = craftName \/ ~@.v[p].has THEN None
                 ELSE Some([@.v[p].v EXCEPT
                        !.requiredBy = @ \ {craftName},
                        !.dependencies = @ \ {craftName}])])]

\* What may throw during one run of remove after craftdesk.json has been
\* written: nothing, fs.remove of a craft directory, or the write of
\* craftdesk.lock.
Faults == {"none", "removeDir", "writeLockfile"}

\* fs.remove(craftDir) inside removeCraft rejects: the directory is there
\* and the removal is the faulty step.
removeThrows(fs, name, type, fault) ==
    fault = "removeDir" /\ fs[CraftDir(type, name)].present

RECURSIVE removeEveryType(_, _, _, _, _, _)
\* The best-effort loop over typesToTry; it ends at the first removeCraft
\* that throws.
removeEveryType(fs, st, name, types, writeOk, fault) ==
    IF types = <<>> THEN [fs |-> fs, st |-> st, ok |-> TRUE]
    ELSE LET After(r) ==
                 IF removeThrows(fs, name, Head(types), fault)
                 THEN [fs |-> fs, st |-> r.st, ok |-> FALSE]
                 ELSE removeEveryType(r.fs, r.st, name, Tail(types), writeOk,
                                      fault)
         IN  After(removeCraft(fs, st, name, Head(types), writeOk))

\* Lines 78-116 of removeCommand: craftdesk.json (m1) has been written.
removeInstalled(m1, l, fs, st, craftName, writeOk, fault) ==
    LET Locked(rc) ==
            IF removeThrows(fs, craftName, l.crafts[craftName].v.type, fault)
            THEN [m |-> m1, l |-> l, fs |-> fs, st |-> rc.st, ok |-> FALSE,
                  err |-> "removeFailed", named |-> {},
                  steps |-> <<"writeManifest", "removeCraft:throw">>]
            ELSE IF fault = "writeLockfile"
            THEN [m |-> m1, l |-> l, fs |-> rc.fs, st |-> rc.st, ok |-> FALSE,
                  err |-> "lockfileWriteFailed", named |-> {},
                  steps |-> <<"writeManifest", "removeCraft",
                              "writeLockfile:throw">>]
            ELSE [m |-> m1, l |-> PruneLockfile(l, craftName), fs |-> rc.fs,
                  st |-> rc.st, ok |-> TRUE, err |-> "", named |-> {},
                  steps |-> <<"writeManifest", "removeCraft", "writeLockfile">>]
        Unlocked(re) ==
            [m |-> m1, l |-> l, fs |-> re.fs, st |-> re.st, ok |-> re.ok,
             err |-> IF re.ok THEN "" ELSE "removeFailed", named |-> {},
             steps |-> <<"writeManifest",
                         IF re.ok THEN "removeEveryType"
                         ELSE "removeEveryType:throw">>]
    IN  IF l.exists /\ l.crafts[craftName].has
        THEN Locked(removeCraft(fs, st, craftName,
                                l.crafts[craftName].v.type, writeOk))
        ELSE Unlocked(removeEveryType(fs, st, craftName,
                        <<"skill", "agent", "command", "hook", "plugin">>,
                        writeOk, fault))

\* Lines 49-116 of removeCommand, once the dependents check has passed.
removeFromProject(m, l, fs, st, craftName, writeOk, fault) ==
    LET i == FoundInField(m, craftName)
    IN  IF i = 0
        THEN [m |-> m, l |-> l, fs |-> fs, st |-> st, ok |-> FALSE,
              err |-> "notInManifest", named |-> {}, steps |-> <<>>]
        ELSE removeInstalled(DeleteFromField(m, DepFields[i], craftName),
                             l, fs, st, craftName, writeOk, fault)

\* removeCommand without the check for dependents.
removeCommand_NoCheck(m, l, fs, st, craftName, force, writeOk, fault) ==
    IF ~readCraftDeskJson(m).has
    THEN [m |-> m, l |-> l, fs |-> fs, st |-> st, ok |-> FALSE,
          err |-> "noManifest", named |-> {}, steps |-> <<>>]
    ELSE removeFromProject(m, l, fs, st, craftName, writeOk, fault)

\* removeCommand(craftName, options); ok is FALSE when the process exits
\* with status 1.
removeCommand(m, l, fs, st, craftName, force, writeOk, fault) ==
    LET dependents == Dependents(l, craftName)
    IN  IF ~readCraftDeskJson(m).has
        THEN [m |-> m, l |-> l, fs |-> fs, st |-> st, ok |-> FALSE,
              err |-> "noManifest", named |-> {}, steps |-> <<>>]
        ELSE IF readCraftDeskLock(l).has /\ l.pluginTree.has /\ ~force
                /\ dependents # {}
        THEN [m |-> m, l |-> l, fs |-> fs, st |-> st, ok |-> FALSE,
              err |-> "dependents", named |-> dependents, steps |-> <<>>]
        ELSE removeFromProject(m, l, fs, st, craftName, writeOk, fault)

---------------------------------------------------------------------------
(* Lock entries and environments the operations are run with.              *)

\* The kind each craft name is published with.
TypeOf(name) ==
    IF name = "alpha" THEN "skill"
    ELSE IF name = "beta" THEN "plugin" ELSE "widget"

\* The archive the registry published for a craft.
Published(name) ==
    IF name = "alpha" THEN "skillpkg"
    ELSE IF name = "beta" THEN "plugA" ELSE "widgetpkg"

\* dependencies (the keys) and installedAs of the lock entries of a craft;
\* the installer reads installedAs of plugins only.
Provenance(name) ==
    IF name = "beta"
    THEN {<<{"alpha"}, "direct">>, <<{}, "dependency">>,
          <<{"alpha", "gamma"}, "dependency">>}
    ELSE {<<{}, "direct">>}

RegistryEntries(name) ==
    {[version |-> v, type |-> TypeOf(name), git |-> Absent,
      integrity |-> i, commit |-> Absent, path |-> Absent, file |-> Absent,
      dependencies |-> p[1], installedAs |-> p[2]] :
        v \in Versions, i \in {Absent, Digest(Published(name))},
        p \in Provenance(name)}

GitEntries(name) ==
    {[version |-> v, type |-> TypeOf(name), git |-> "repo",
      integrity |-> Absent, commit |-> c, path |-> pa, file |-> f,
      dependencies |-> p[1], installedAs |-> p[2]] :
        v \in {1}, c \in {Absent, "c0ffee"}, pa \in {Absent, "pkg"},
        f \in {Absent, "f.md"}, p \in Provenance(name)}

\* An environment in which nothing fails.
CalmEnv ==
    [download |-> "neterr", extract |-> "ok", clone |-> "fail",
     shallow |-> FALSE, unshallowOk |-> TRUE, checkoutOk |-> TRUE,
     copy |-> "ok", settingsFailAt |-> 0]

\* The writes to the settings file that may throw: none (0), the plugin
\* registration (1) or the registration of the first or second MCP server.
FailPoints(name) == IF TypeOf(name) = "plugin" THEN 0..3 ELSE {0}

RegistryEnvs(name) ==
    {[CalmEnv EXCEPT !.download = d] : d \in {"neterr", "partial"}}
    \cup {[CalmEnv EXCEPT !.download = d, !.extract = x] :
            d \in Remote(name), x \in {"throw", "partial"}}
    \cup {[CalmEnv EXCEPT !.download = d, !.settingsFailAt = k] :
            d \in Remote(name), k \in FailPoints(name)}

GitEnvs(name) ==
    {CalmEnv}
    \cup {[CalmEnv EXCEPT !.clone = c, !.shallow = sh, !.unshallowOk = u,
                          !.checkoutOk = co, !.copy = "throw"] :
            c \in Remote(name), sh \in BOOLEAN, u \in BOOLEAN, co \in BOOLEAN}
    \cup {[CalmEnv EXCEPT !.clone = c, !.shallow = sh, !.copy = x,
                          !.settingsFailAt = k] :
            c \in Remote(name), sh \in BOOLEAN,
            x \in {"ok", "partial"}, k \in FailPoints(name)}

EnvsFor(name, entry) ==
    IF entry.git # Absent THEN GitEnvs(name) ELSE RegistryEnvs(name)

---------------------------------------------------------------------------
(* State.                                                                  *)

VARIABLES
    disk,       \* the install directory: craft directory -> content
    settings,   \* .claude/settings.json
    manifest,   \* craftdesk.json
    lockfile,   \* craftdesk.lock
    last,       \* the operation that ran last and what it returned
    resolver    \* the walk of the plugin resolver

vars == <<disk, settings, manifest, lockfile, last, resolver>>

\* No resolution is running.
NoWalk == [status |-> "idle"]

\* No operation has run yet.
NoOp ==
    [op |-> "none", name |-> "", type |-> "", force |-> FALSE, ok |-> TRUE,
     err |-> "", warned |-> FALSE, steps |-> <<>>, git |-> FALSE,
     integrity |-> Absent, downloaded |-> "", names |-> <<>>,
     attempted |-> <<>>, outcomes |-> <<>>, named |-> {}, entry |-> None,
     shallow |-> FALSE, out |-> "", updates |-> <<>>, lsRemote |-> "unused",
     dryRun |-> FALSE]

NoManifest == [exists |-> FALSE]

NoLockfile == [exists |-> FALSE]

Init ==
    /\ disk = [d \in Dirs |-> EmptyDir]
    /\ settings = DefaultSettings
    /\ manifest = NoManifest
    /\ lockfile = NoLockfile
    /\ last = NoOp
    /\ resolver = NoWalk

InstallCraft(name, entry, env) ==
    \E r \in {installCraft(disk, settings, name, entry, env)} :
        /\ disk' = r.fs
        /\ settings' = r.st
        /\ UNCHANGED resolver
        /\ last' = [NoOp EXCEPT !.op = "installCraft", !.name = name,
                      !.type = entry.type, !.ok = r.ok, !.err = r.err,
                      !.warned = r.warned, !.steps = r.steps,
                      !.git = (entry.git # Absent),
                      !.integrity = entry.integrity,
                      !.entry = Some(entry),
                      !.shallow = (entry.git # Absent /\ env.clone # "fail"
                                   /\ env.shallow),
                      !.downloaded = IF entry.git # Absent THEN env.clone
                                     ELSE env.download]
        /\ UNCHANGED <<manifest, lockfile>>

RemoveCraft(name, type, writeOk) ==
    \E r \in {removeCraft(disk, settings, name, type, writeOk)} :
        /\ disk' = r.fs
        /\ settings' = r.st
        /\ UNCHANGED resolver
        /\ last' = [NoOp EXCEPT !.op = "removeCraft", !.name = name,
                      !.type = type, !.ok = r.ok, !.warned = r.warned,
                      !.steps = r.steps]
        /\ UNCHANGED <<manifest, lockfile>>

\* The lockfiles installFromLockfile is called with: the three crafts in
\* any order, each with its registry entry of version 1.
BatchEntry(name) ==
    CHOOSE e \in RegistryEntries(name) :
        e.version = 1 /\ e.integrity # Absent /\ e.installedAs = "direct"

BatchLockfiles ==
    {<<[name |-> a, entry |-> BatchEntry(a)], [name |-> b, entry |-> BatchEntry(b)],
       [name |-> c, entry |-> BatchEntry(c)]>> :
        a \in Names, b \in Names, c \in Names}

\* What one installCraft of a batch meets: the published archive, a
\* tampered archive, or an archive that cannot be extracted.
BatchEnvs(name) ==
    {[CalmEnv EXCEPT !.download = Published(name)],
     [CalmEnv EXCEPT !.download = "tampered"],
     [CalmEnv EXCEPT !.download = Published(name), !.extract = "throw"]}

InstallFromLockfile(crafts, envs) ==
    \E r \in {installFromLockfile(disk, settings, crafts, envs)} :
        /\ disk' = r.fs
        /\ settings' = r.st
        /\ UNCHANGED resolver
        /\ last' = [NoOp EXCEPT !.op = "installFromLockfile", !.ok = r.ok,
                      !.err = r.err,
                      !.names = [i \in 1..Len(crafts) |-> crafts[i].name],
                      !.attempted = r.attempted, !.outcomes = r.outcomes]
        /\ UNCHANGED <<manifest, lockfile>>

\* The installer run for the skill craft: registry and git installations
\* and removals.
Next ==
    \/ \E e \in RegistryEntries("alpha") \cup GitEntries("alpha") :
         \E env \in EnvsFor("alpha", e) : InstallCraft("alpha", e, env)
    \/ \E t \in {"skill", "plugin", "widget"}, w \in BOOLEAN :
         RemoveCraft("alpha", t, w)

Spec == Init /\ [][Next]_vars

\* The lock entries the plugin craft is installed with: one registry entry
\* and one entry for a whole git repository.
PluginEntries ==
    {e \in RegistryEntries("beta") : e.version = 1 /\ e.integrity = Absent}
    \cup {e \in GitEntries("beta") :
            e.commit = Absent /\ e.path = Absent /\ e.file = Absent}

PluginEnvs(entry) ==
    IF entry.git # Absent
    THEN {[CalmEnv EXCEPT !.clone = c, !.settingsFailAt = k] :
            c \in Remote("beta"), k \in FailPoints("beta")}
    ELSE {[CalmEnv EXCEPT !.download = d, !.settingsFailAt = k] :
            d \in Remote("beta"), k \in FailPoints("beta")}

\* The installer run for the plugin craft.
NextPlugin ==
    \/ \E e \in PluginEntries : \E env \in PluginEnvs(e) :
         InstallCraft("beta", e, env)
    \/ \E t \in {"plugin", "widget"}, w \in BOOLEAN :
         RemoveCraft("beta", t, w)

SpecPlugin == Init /\ [][NextPlugin]_vars

\* Batch installations of the three crafts, and removals.
NextBatch ==
    \/ \E crafts \in {c \in BatchLockfiles :
                        Cardinality({c[i].name : i \in 1..Len(c)}) = Len(c)} :
         \E e1 \in BatchEnvs(crafts[1].name), e2 \in BatchEnvs(crafts[2].name),
            e3 \in BatchEnvs(crafts[3].name) :
           InstallFromLockfile(crafts, <<e1, e2, e3>>)
    \/ \E n \in Names, w \in BOOLEAN : RemoveCraft(n, TypeOf(n), w)

SpecBatch == Init /\ [][NextBatch]_vars

\* The kinds a lock entry is installed with: the five known ones and one
\* the Installer does not know.
Kinds == {"skill", "agent", "command", "hook", "plugin", "widget"}

\* A registry entry of craft name with a given kind and version.
KindEntry(name, type, v) ==
    [version |-> v, type |-> type, git |-> Absent,
     integrity |-> Digest(Published(name)), commit |-> Absent,
     path |-> Absent, file |-> Absent, dependencies |-> {},
     installedAs |-> "direct"]

\* The installations of the run over all kinds: alpha with every kind,
\* as a skill in every version, as a skill or a plugin also with an
\* archive that is tampered or cannot be extracted; gamma as a widget.
KindRuns ==
    {<<"alpha", KindEntry("alpha", t, 1),
       [CalmEnv EXCEPT !.download = "skillpkg"]>> : t \in Kinds}
    \cup {<<"alpha", KindEntry("alpha", "skill", v),
            [CalmEnv EXCEPT !.download = "skillpkg"]>> : v \in Versions}
    \cup {<<"alpha", KindEntry("alpha", t, 1),
            [CalmEnv EXCEPT !.download = "tampered"]>> :
              t \in {"skill", "plugin"}}
    \cup {<<"alpha", KindEntry("alpha", t, 1),
            [CalmEnv EXCEPT !.download = "skillpkg", !.extract = "throw"]>> :
              t \in {"skill", "plugin"}}
    \cup {<<"gamma", KindEntry("gamma", "widget", 1),
            [CalmEnv EXCEPT !.download = "widgetpkg"]>>}

\* The installer run over all kinds.
NextKinds ==
    \/ \E run \in KindRuns : InstallCraft(run[1], run[2], run[3])
    \/ \E n \in {"alpha", "gamma"}, t \in Kinds : RemoveCraft(n, t, TRUE)

SpecKinds == Init /\ [][NextKinds]_vars

---------------------------------------------------------------------------
(* Projects the remove command is run in.                                  *)

NameOrder == <<"alpha", "beta", "gamma">>

\* The lock entry of a craft: direct when craftdesk.json declares it.
ProjectEntry(name, declared) ==
    [BatchEntry(name) EXCEPT
        !.installedAs = IF declared THEN "direct" ELSE "dependency"]

\* The dependency edges (dependent, dependency) a plugin tree may hold.
TreeEdges == {<<"beta", "alpha">>, <<"beta", "gamma">>, <<"gamma", "alpha">>}

TreeOf(L, E, D) ==
    [p \in Names |->
        IF p \notin L THEN None
        ELSE Some([version |-> 1,
                   dependencies |-> {e[2] : e \in {x \in E : x[1] = p}},
                   requiredBy |-> {e[1] : e \in {x \in E : x[2] = p}},
                   isDependency |-> (p \notin D)])]

\* craftdesk.json with the crafts D under dependencies and dev under
\* devDependencies.
ManifestOf(D, dev) ==
    [exists |-> TRUE,
     fields |-> [f \in {DepFields[i] : i \in 1..Len(DepFields)} |->
                   IF f = "dependencies"
                   THEN (IF D = {} THEN None ELSE Some(D))
                   ELSE IF f = "devDependencies" THEN dev ELSE None]]

\* craftdesk.lock with the crafts L, the tree edges E among them (when
\* withTree) and a metadata section (when withMeta).
LockfileOf(L, E, D, withTree, withMeta) ==
    [exists |-> TRUE,
     crafts |-> [n \in Names |->
                   IF n \in L THEN Some(ProjectEntry(n, n \in D)) ELSE None],
     pluginTree |-> IF withTree THEN Some(TreeOf(L, E, D)) ELSE None,
     metadata |-> IF withMeta THEN Some([totalCrafts |-> Cardinality(L)])
                  ELSE None]

\* The install directory and settings after the crafts I were installed.
Installed(I) ==
    LET crafts == SelectSeq([i \in 1..Len(NameOrder) |->
                               [name |-> NameOrder[i],
                                entry |-> BatchEntry(NameOrder[i])]],
                            LAMBDA c : c.name \in I)
        envs == [i \in 1..Len(crafts) |->
                   [CalmEnv EXCEPT !.download = Published(crafts[i].name)]]
    IN  installLoop([d \in Dirs |-> EmptyDir], DefaultSettings, crafts, envs)

InitRemove ==
    /\ \E D \in SUBSET Names, dev \in {None, Some({}), Some({"alpha"})} :
         manifest \in {NoManifest, ManifestOf(D, dev)}
    /\ \E L \in SUBSET Names, E \in SUBSET TreeEdges,
          withTree \in BOOLEAN, withMeta \in BOOLEAN,
          D \in SUBSET Names :
         /\ \A e \in E : e[1] \in L /\ e[2] \in L
         /\ withTree \/ E = {}
         /\ (manifest.exists /\ manifest.fields["dependencies"].has)
              => D = manifest.fields["dependencies"].v
         /\ ~(manifest.exists /\ manifest.fields["dependencies"].has) => D = {}
         /\ lockfile \in {NoLockfile, LockfileOf(L, E, D, withTree, withMeta)}
         /\ \E I \in {{}, L} : \E r \in {Installed(I)} :
              /\ disk = r.fs
              /\ settings = r.st
    /\ last = NoOp
    /\ resolver = NoWalk

RemoveCommand(craftName, force, writeOk, fault) ==
    \E r \in {removeCommand(manifest, lockfile, disk, settings, craftName,
                           force, writeOk, fault)} :
        /\ manifest' = r.m
        /\ lockfile' = r.l
        /\ disk' = r.fs
        /\ settings' = r.st
        /\ UNCHANGED resolver
        /\ last' = [NoOp EXCEPT !.op = "remove", !.name = craftName,
                      !.force = force, !.ok = r.ok, !.err = r.err,
                      !.named = r.named, !.steps = r.steps]

\* Runs of remove in which neither fs.remove nor the lockfile write throws.
NextRemove ==
    \E n \in Names, force \in BOOLEAN, w \in BOOLEAN :
        RemoveCommand(n, force, w, "none")

SpecRemove == InitRemove /\ [][NextRemove]_vars

---------------------------------------------------------------------------
(* Calls of the SettingsManager on a settings file that may be unreadable  *)
(* at the time of a call.                                                   *)

\* The plugin configurations registerPlugin is called with.
SettingsConfigs ==
    {PluginConfig(n, [version |-> v, dependencies |-> {},
                      installedAs |-> a],
                  [skills |-> None, agents |-> None, commands |-> None,
                   hooks |-> None]) :
        n \in Names, v \in Versions, a \in {"direct", "dependency"}}

SMRegisterPlugin(config, readable, writeOk) ==
    \E r \in {SMregisterPluginFrom(settings, config, readable, writeOk)} :
        /\ settings' = r.st
        /\ last' = [NoOp EXCEPT !.op = "registerPlugin", !.name = config.name,
                      !.ok = r.ok, !.warned = ~readable]
        /\ UNCHANGED <<disk, manifest, lockfile, resolver>>

SMUnregisterPlugin(name, readable, writeOk) ==
    \E r \in {SMunregisterPluginFrom(settings, name, readable, writeOk)} :
        /\ settings' = r.st
        /\ last' = [NoOp EXCEPT !.op = "unregisterPlugin", !.name = name,
                      !.ok = r.ok, !.warned = ~readable]
        /\ UNCHANGED <<disk, manifest, lockfile, resolver>>

SMRegisterMCPServer(server, readable, writeOk) ==
    \E r \in {SMregisterMCPServerFrom(settings, server, readable, writeOk)} :
        /\ settings' = r.st
        /\ last' = [NoOp EXCEPT !.op = "registerMCPServer", !.name = server,
                      !.ok = r.ok, !.warned = ~readable]
        /\ UNCHANGED <<disk, manifest, lockfile, resolver>>

SMUnregisterMCPServer(server, readable, writeOk) ==
    \E r \in {SMunregisterMCPServerFrom(settings, server, readable, writeOk)} :
        /\ settings' = r.st
        /\ last' = [NoOp EXCEPT !.op = "unregisterMCPServer", !.name = server,
                      !.ok = r.ok, !.warned = ~readable]
        /\ UNCHANGED <<disk, manifest, lockfile, resolver>>

NextSettings ==
    \E readable \in BOOLEAN, writeOk \in BOOLEAN :
        \/ \E config \in SettingsConfigs :
             SMRegisterPlugin(config, readable, writeOk)
        \/ \E n \in Names : SMUnregisterPlugin(n, readable, writeOk)
        \/ \E sv \in Servers : SMRegisterMCPServer(sv, readable, writeOk)
        \/ \E sv \in Servers : SMUnregisterMCPServer(sv, readable, writeOk)

SpecSettings == Init /\ [][NextSettings]_vars

---------------------------------------------------------------------------
(* commands/update.ts and commands/outdated.ts.  The project holds the     *)
(* registry craft alpha and the git craft gamma, pinned to a tag or to    *)
(* the head of a branch.  net is what the registry and the git remote     *)
(* answer during one run of a command.                                    *)

TagNames == <<"v1", "v2", "v3", "v4">>

TagOf(n) == TagNames[n]

\* update.latest.replace(/^v/, ''): the version a tag names.
VersionOfTag(t) == CHOOSE n \in 1..Len(TagNames) : TagNames[n] = t

Commits == {"c0ffee0aaa", "c0ffee0bbb", "d00d1e0aaa"}

\* commit.substring(0, 7)
Short(c) ==
    CASE c = "c0ffee0aaa" -> "c0ffee0"
      [] c = "c0ffee0bbb" -> "c0ffee0"
      [] c = "d00d1e0aaa" -> "d00d1e0"

\* The commit a tag of the remote points to.
CommitOfTag(t) == IF VersionOfTag(t) = 1 THEN "c0ffee0aaa" ELSE "d00d1e0aaa"

\* registryClient.getCraftInfo: the version the registry offers, null on
\* any error.
getCraftInfo(name, net) == net.info[name]

\* getRemoteTags: the tags git ls-remote --tags lists; catch { return [] }
getRemoteTags(net) ==
    IF net.lsRemote = "fail" THEN {} ELSE {TagOf(n) : n \in net.tags}

\* getRemoteHeadCommit: the head of the branch; catch { return null }
getRemoteHeadCommit(net) ==
    IF net.lsRemote = "fail" THEN Absent ELSE net.head

\* getRemoteTagCommit: the commit of a tag; catch { return null }
getRemoteTagCommit(net, tag) ==
    IF net.lsRemote = "fail" THEN Absent ELSE CommitOfTag(tag)

\* sortTagsBySemver(tags)[0]: the tag of the highest version.
LatestTag(tags) ==
    CHOOSE t \in tags : \A u \in tags : VersionOfTag(u) <= VersionOfTag(t)

isNewerVersion(current, latest) == VersionOfTag(latest) > VersionOfTag(current)

\* checkRegistryUpdate of update.ts
checkRegistryUpdate(name, entry, net) ==
    IF ~getCraftInfo(name, net).has THEN None
    ELSE IF getCraftInfo(name, net).v = entry.version THEN None
    ELSE Some([name |-> name, current |-> entry.version,
               latest |-> getCraftInfo(name, net).v, type |-> entry.type,
               source |-> "registry", lockEntry |-> entry])

\* checkGitUpdate of update.ts
checkGitUpdate(name, entry, net) ==
    LET currentCommit == IF entry.commit # Absent THEN entry.commit
                         ELSE entry.integrity
        tags == getRemoteTags(net)
        latestCommit == getRemoteHeadCommit(net)
        Info(cur, lat) ==
            Some([name |-> name, current |-> cur, latest |-> lat,
                  type |-> entry.type, source |-> "git", lockEntry |-> entry])
    IN  IF entry.tag # Absent
        THEN IF tags = {} THEN None
             ELSE IF LatestTag(tags) # entry.tag
                     /\ isNewerVersion(entry.tag, LatestTag(tags))
             THEN Info(entry.tag, LatestTag(tags))
             ELSE None
        ELSE IF latestCommit = Absent \/ currentCommit = Absent THEN None
             ELSE IF Short(currentCommit) # Short(latestCommit)
                     /\ latestCommit # currentCommit
             THEN Info(Short(currentCommit), Short(latestCommit))
             ELSE None

\* Object.entries(lockfile.crafts) without the crafts the options skip.
CheckedCrafts(l, only) ==
    SelectSeq(NameOrder,
              LAMBDA n : /\ l.crafts[n].has
                         /\ only = "git" => l.crafts[n].v.git # Absent
                         /\ only = "registry" => l.crafts[n].v.git = Absent)

checkUpdate(name, entry, net) ==
    IF entry.git # Absent THEN checkGitUpdate(name, entry, net)
    ELSE checkRegistryUpdate(name, entry, net)

\* findAvailableUpdates
findAvailableUpdates(l, only, net) ==
    LET checked == CheckedCrafts(l, only)
        infos == [i \in 1..Len(checked) |->
                    checkUpdate(checked[i], l.crafts[checked[i]].v, net)]
        found == SelectSeq(infos,
                           LAMBDA u : u.has /\ u.v.current # u.v.latest)
    IN  [i \in 1..Len(found) |-> found[i].v]

\* fetchNewLockEntry: the registry entry is built from the registry's
\* answer (without installedAs), the git entry is a copy of the old one
\* with the new tag or commit.
fetchNewLockEntry(update, net) ==
    IF update.source = "registry"
    THEN IF ~net.fetchOk \/ ~getCraftInfo(update.name, net).has THEN None
         ELSE Some([version |-> update.latest, type |-> update.type,
                    git |-> Absent,
                    integrity |-> Digest(Published(update.name)),
                    commit |-> Absent, path |-> Absent, file |-> Absent,
                    tag |-> Absent,
                    dependencies |-> update.lockEntry.dependencies,
                    installedAs |-> Absent])
    ELSE IF update.lockEntry.tag # Absent
    THEN IF getRemoteTagCommit(net, update.latest) # Absent
         THEN Some([update.lockEntry EXCEPT
                      !.tag = update.latest,
                      !.version = VersionOfTag(update.latest),
                      !.commit = getRemoteTagCommit(net, update.latest),
                      !.integrity = getRemoteTagCommit(net, update.latest)])
         ELSE Some([update.lockEntry EXCEPT
                      !.tag = update.latest,
                      !.version = VersionOfTag(update.latest)])
    ELSE IF getRemoteHeadCommit(net) # Absent
    THEN Some([update.lockEntry EXCEPT
                 !.commit = getRemoteHeadCommit(net),
                 !.integrity = getRemoteHeadCommit(net),
                 !.version = 0])
    ELSE Some(update.lockEntry)

\* What installCraft meets during an update: the published archive or
\* repository, or a network that fails for the crafts in failing.
UpdateEnv(name, failing) ==
    IF name \in failing THEN CalmEnv
    ELSE [CalmEnv EXCEPT !.download = Published(name),
                         !.clone = Published(name)]

\* craftdesk.json after the update of one craft: the version of its
\* dependency is rewritten unless it is a caret range (or with --latest).
bumpDependency(m, name, version, latest) ==
    IF m.fields["dependencies"].has /\ name \in m.fields["dependencies"].v
       /\ (latest \/ ~m.req[name].caret)
    THEN [m EXCEPT !.req[name].version = version]
    ELSE m

\* if (await fs.pathExists(craftDir)) await fs.remove(craftDir)
removeOldInstallation(fs, update) ==
    [fs EXCEPT ![CraftDir(update.lockEntry.type, update.name)] = EmptyDir]

\* A loop that a failed craft ends.
remainingAfterFailure_Abort(toUpdate) == <<>>

\* errorCount++; continue (and the catch inside the loop): the crafts the
\* loop still updates after one craft failed.
remainingAfterFailure(toUpdate) == Tail(toUpdate)

RECURSIVE updateLoop(_, _, _, _, _, _, _, _)
\* The for loop of updateCommand over toUpdate; what one craft throws is
\* caught and counted, and the loop goes on.
updateLoop(fs, st, l, m, toUpdate, net, latest, failing) ==
    IF toUpdate = <<>>
    THEN [fs |-> fs, st |-> st, l |-> l, m |-> m, outcomes |-> <<>>]
    ELSE LET u == Head(toUpdate)
             Rest(fs1, st1, l1, m1, outcome) ==
                 [updateLoop(fs1, st1, l1, m1,
                             IF outcome THEN Tail(toUpdate)
                             ELSE remainingAfterFailure(toUpdate),
                             net, latest, failing)
                    EXCEPT !.outcomes = <<[name |-> u.name, ok |-> outcome]>>
                                        \o @]
             Installed1(new, r) ==
                 IF ~r.ok
                 THEN Rest(r.fs, r.st, l, m, FALSE)
                 ELSE Rest(r.fs, r.st,
                           [l EXCEPT !.crafts[u.name] = Some(new)],
                           bumpDependency(m, u.name, new.version, latest),
                           TRUE)
             Fetched(e) ==
                 IF ~e.has
                 THEN Rest(fs, st, l, m, FALSE)
                 ELSE Installed1(e.v,
                                 installCraft(removeOldInstallation(fs, u), st,
                                              u.name, e.v,
                                              UpdateEnv(u.name, failing)))
         IN  Fetched(fetchNewLockEntry(u, net))

\* lockfile.metadata.totalCrafts = Object.keys(lockfile.crafts).length
countCrafts(l) ==
    IF l.metadata.has
    THEN [l EXCEPT !.metadata =
            Some([totalCrafts |-> Cardinality({n \in Names : l.crafts[n].has})])]
    ELSE l

\* An update that applies the updates also with --dry-run.
previewOnly_Ignored(opts) == FALSE

\* if (options.dryRun) { ...; return; }
previewOnly(opts) == opts.dryRun

\* updateCommand(craftName, options); craftName is Absent when no craft
\* is named.  The result holds the files after the command, the exit
\* status (ok), the message it ended with (out) and the updates it found.
updateCommand(m, l, fs, st, craftName, opts, net, failing) ==
    LET Same(ok, out, ups) ==
            [m |-> m, l |-> l, fs |-> fs, st |-> st, ok |-> ok, out |-> out,
             updates |-> ups, outcomes |-> <<>>]
        Written(ups, r) ==
            [m |-> r.m, l |-> countCrafts(r.l), fs |-> r.fs, st |-> r.st,
             ok |-> TRUE, out |-> "updated", updates |-> ups,
             outcomes |-> r.outcomes]
        Apply(toUpdate) ==
            IF craftName # Absent /\ toUpdate = <<>>
            THEN IF l.crafts[craftName].has
                 THEN Same(TRUE, "already up to date", toUpdate)
                 ELSE Same(FALSE, "not installed", toUpdate)
            ELSE IF toUpdate = <<>>
            THEN Same(TRUE, "all up to date", toUpdate)
            ELSE IF previewOnly(opts)
            THEN Same(TRUE, "preview", toUpdate)
            ELSE Written(toUpdate,
                         updateLoop(fs, st, l, m, toUpdate, net, opts.latest,
                                    failing))
    IN  IF ~m.exists THEN Same(FALSE, "no craftdesk.json", <<>>)
        ELSE IF ~l.exists \/ \A n \in Names : ~l.crafts[n].has
        THEN Same(TRUE, "no crafts installed", <<>>)
        ELSE Apply(SelectSeq(findAvailableUpdates(l, opts.only, net),
                             LAMBDA u : craftName = Absent
                                        \/ u.name = craftName))

\* checkRegistryUpdate of outdated.ts
outdatedRegistry(name, entry, net) ==
    [name |-> name, source |-> "registry", current |-> entry.version,
     latest |-> IF getCraftInfo(name, net).has
                THEN getCraftInfo(name, net).v ELSE "unknown",
     hasUpdate |-> /\ getCraftInfo(name, net).has
                   /\ getCraftInfo(name, net).v # entry.version]

\* checkGitUpdate of outdated.ts
outdatedGit(name, entry, net) ==
    LET currentCommit == IF entry.commit # Absent THEN entry.commit
                         ELSE entry.integrity
        tags == getRemoteTags(net)
        latestCommit == getRemoteHeadCommit(net)
    IN  [name |-> name, source |-> "git",
         current |-> IF entry.tag # Absent THEN entry.tag
                     ELSE IF currentCommit # Absent THEN Short(currentCommit)
                     ELSE "unknown",
         latest |-> IF entry.tag # Absent
                    THEN (IF tags # {} THEN LatestTag(tags) ELSE entry.tag)
                    ELSE IF latestCommit # Absent /\ currentCommit # Absent
                    THEN Short(latestCommit)
                    ELSE IF currentCommit # Absent THEN Short(currentCommit)
                    ELSE "unknown",
         hasUpdate |->
           IF entry.tag # Absent
           THEN /\ tags # {}
                /\ LatestTag(tags) # entry.tag
                /\ isNewerVersion(entry.tag, LatestTag(tags))
           ELSE /\ latestCommit # Absent /\ currentCommit # Absent
                /\ Short(currentCommit) # Short(latestCommit)
                /\ latestCommit # currentCommit]

\* outdatedCommand(options): the crafts it reports as outdated.
outdatedCommand(m, l, only, net) ==
    LET checked == CheckedCrafts(l, only)
        infos == [i \in 1..Len(checked) |->
                    IF l.crafts[checked[i]].v.git # Absent
                    THEN outdatedGit(checked[i], l.crafts[checked[i]].v, net)
                    ELSE outdatedRegistry(checked[i], l.crafts[checked[i]].v,
                                          net)]
        withUpdates == SelectSeq(infos, LAMBDA o : o.hasUpdate)
    IN  IF ~m.exists
        THEN [ok |-> FALSE, out |-> "no craftdesk.json", updates |-> <<>>]
        ELSE IF ~l.exists \/ \A n \in Names : ~l.crafts[n].has
        THEN [ok |-> TRUE, out |-> "no crafts installed", updates |-> <<>>]
        ELSE IF withUpdates = <<>>
        THEN [ok |-> TRUE, out |-> "all up to date", updates |-> <<>>]
        ELSE [ok |-> TRUE, out |-> "table", updates |-> withUpdates]

\* The lock entries of the project: alpha from the registry, gamma from
\* git, pinned to the tag v1 or to the head of its branch.
UpdateEntry(name, v, pin, declared) ==
    IF name = "alpha"
    THEN [version |-> v, type |-> "skill", git |-> Absent,
          integrity |-> Digest(Published(name)), commit |-> Absent,
          path |-> Absent, file |-> Absent, tag |-> Absent,
          dependencies |-> {},
          installedAs |-> IF declared THEN "direct" ELSE "dependency"]
    ELSE [version |-> IF pin = "tag" THEN 1 ELSE 0, type |-> "widget",
          git |-> "repo", integrity |-> "c0ffee0aaa", commit |-> "c0ffee0aaa",
          path |-> Absent, file |-> Absent,
          tag |-> IF pin = "tag" THEN TagOf(1) ELSE Absent,
          dependencies |-> {}, installedAs |-> "direct"]

UpdateLockfile(L, v, pin, D, withMeta) ==
    [exists |-> TRUE,
     crafts |-> [n \in Names |->
                   IF n \in L THEN Some(UpdateEntry(n, v, pin, n \in D))
                   ELSE None],
     pluginTree |-> None,
     metadata |-> IF withMeta THEN Some([totalCrafts |-> Cardinality(L)])
                  ELSE None]

\* craftdesk.json with the dependencies D; req holds the version each
\* dependency asks for and whether it is a caret range.
UpdateManifest(D, caret) ==
    [ManifestOf(D, None) EXCEPT !.exists = TRUE] @@
    [req |-> [n \in Names |-> [caret |-> (caret /\ n = "alpha"),
                               version |-> 1]]]

\* What the registry can answer about alpha: nothing, a version, or a
\* version first and nothing on the second request.
RegistryAnswers ==
    {<<None, TRUE>>, <<Some(MaxVersion), FALSE>>}
    \cup {<<Some(v), TRUE>> : v \in Versions}

\* What git ls-remote can answer: a failure, or the tags and the head.
RemoteAnswers ==
    {<<"fail", {}, "c0ffee0aaa">>, <<"ok", {}, "c0ffee0aaa">>,
     <<"ok", {1}, "c0ffee0bbb">>, <<"ok", Versions, "d00d1e0aaa">>}

NetOf(i, g) ==
    [info |-> [n \in Names |-> IF n = "alpha" THEN i[1] ELSE None],
     fetchOk |-> i[2], lsRemote |-> g[1], tags |-> g[2], head |-> g[3]]

\* The answers of one run: one of the two sources has something new and
\* the other answers anything.
Nets ==
    {NetOf(i, <<"ok", Versions, "d00d1e0aaa">>) : i \in RegistryAnswers}
    \cup {NetOf(<<Some(MaxVersion), TRUE>>, g) : g \in RemoteAnswers}

DefaultOptions == [dryRun |-> FALSE, latest |-> FALSE, only |-> "all"]

\* The runs of the update command: <<craftName, options, failing>>.
UpdateRuns ==
    {<<Absent, DefaultOptions, f>> : f \in {{}, {"alpha"}, {"gamma"}}}
    \cup {<<n, DefaultOptions, {}>> : n \in Names}
    \cup {<<Absent, [DefaultOptions EXCEPT !.dryRun = TRUE], {}>>,
          <<Absent, [DefaultOptions EXCEPT !.latest = TRUE], {}>>,
          <<Absent, [DefaultOptions EXCEPT !.only = "git"], {}>>,
          <<Absent, [DefaultOptions EXCEPT !.only = "registry"], {}>>}

\* The install directory and settings after craftdesk install.
InstalledFrom(l) ==
    LET locked == SelectSeq(NameOrder, LAMBDA n : l.exists /\ l.crafts[n].has)
    IN  installLoop([d \in Dirs |-> EmptyDir], DefaultSettings,
                    [i \in 1..Len(locked) |->
                       [name |-> locked[i], entry |-> l.crafts[locked[i]].v]],
                    [i \in 1..Len(locked) |-> UpdateEnv(locked[i], {})])

\* The projects the commands are run in: <<craftdesk.json, craftdesk.lock>>.
\* alpha is a direct dependency (exact or caret range) or a dependency of
\* gamma only; the lockfile has a metadata section or not.
UpdateProjects ==
    {<<UpdateManifest(p[1], p[2]),
       UpdateLockfile({"alpha", "gamma"}, 1, pin, p[1], p[3])>> :
        p \in {<<{"alpha", "gamma"}, FALSE, TRUE>>,
               <<{"alpha", "gamma"}, TRUE, FALSE>>,
               <<{"gamma"}, FALSE, TRUE>>},
        pin \in {"tag", "branch"}}
    \cup {<<NoManifest, UpdateLockfile({"gamma"}, 1, "tag", {"gamma"}, TRUE)>>,
          <<UpdateManifest({"gamma"}, FALSE), NoLockfile>>,
          <<UpdateManifest({"gamma"}, FALSE),
            UpdateLockfile({}, 1, "tag", {"gamma"}, TRUE)>>}

InitUpdate ==
    /\ \E p \in UpdateProjects : manifest = p[1] /\ lockfile = p[2]
    /\ \E r \in {InstalledFrom(lockfile)} :
         /\ disk = r.fs
         /\ settings = r.st
    /\ last = NoOp
    /\ resolver = NoWalk

\* A git craft was among the crafts the command checked.
GitChecked(l, only) ==
    \E i \in 1..Len(CheckedCrafts(l, only)) :
        l.crafts[CheckedCrafts(l, only)[i]].v.git # Absent

UpdateCommand(craftName, opts, net, failing) ==
    \E r \in {updateCommand(manifest, lockfile, disk, settings, craftName,
                           opts, net, failing)} :
        /\ manifest' = r.m
        /\ lockfile' = r.l
        /\ disk' = r.fs
        /\ settings' = r.st
        /\ UNCHANGED resolver
        /\ last' = [NoOp EXCEPT !.op = "update", !.name = craftName,
                      !.ok = r.ok, !.out = r.out, !.dryRun = opts.dryRun,
                      !.updates = r.updates, !.outcomes = r.outcomes,
                      !.lsRemote = IF ~manifest.exists \/ ~lockfile.exists
                                      \/ ~GitChecked(lockfile, opts.only)
                                   THEN "unused" ELSE net.lsRemote]

OutdatedCommand(only, net) ==
    \E r \in {outdatedCommand(manifest, lockfile, only, net)} :
        /\ UNCHANGED resolver
        /\ last' = [NoOp EXCEPT !.op = "outdated", !.ok = r.ok,
                      !.out = r.out, !.updates = r.updates,
                      !.lsRemote = IF ~manifest.exists \/ ~lockfile.exists
                                      \/ ~GitChecked(lockfile, only)
                                   THEN "unused" ELSE net.lsRemote]
        /\ UNCHANGED <<manifest, lockfile, disk, settings>>

NextUpdate ==
    \/ \E run \in UpdateRuns, net \in Nets :
         UpdateCommand(run[1], run[2], net, run[3])
    \/ \E only \in {"all", "git", "registry"}, net \in Nets :
         OutdatedCommand(only, net)

SpecUpdate == InitUpdate /\ [][NextUpdate]_vars

---------------------------------------------------------------------------
(* The plugin resolver: resolvePluginDependencies walks the dependencies   *)
(* of the root plugin depth first.  declared is what the manifest of each *)
(* craft declares (None: the manifest is missing or unreadable), stack    *)
(* the calls of the walk that have not returned, each with the            *)
(* dependencies it has still to look at.                                  *)

\* The dependencies of a manifest in the order in which they are walked.
DeclaredOrder(S) == SelectSeq(NameOrder, LAMBDA n : n \in S)

\* The resolver when resolvePluginDependencies is entered for root.
startWalk(root, declared) ==
    [status |-> "running", root |-> root, declared |-> declared,
     stack |-> <<[node |-> root, rest |-> DeclaredOrder(declared[root].v)]>>,
     visited |-> {root},
     expansions |-> [n \in Names |-> IF n = root THEN 1 ELSE 0],
     edges |-> {}, skipped |-> {}]

\* The dependency the walk looks at next and the craft that declares it.
NextDependency(r) == Head(r.stack[Len(r.stack)].rest)

Dependent(r) == r.stack[Len(r.stack)].node

\* The stack after the call on top has taken its next dependency.
Advance(stack) ==
    [stack EXCEPT ![Len(stack)].rest = Tail(@)]

\* A resolver for which a name met again is an error.
recordShared_Raises(r) ==
    [r EXCEPT !.status = "error", !.stack = <<>>]

\* A name that was visited before: the edge is recorded as shared and
\* the name is not expanded again.
recordShared(r) ==
    [r EXCEPT !.edges = @ \cup {[from |-> Dependent(r),
                                 to |-> NextDependency(r), shared |-> TRUE]},
              !.stack = Advance(@)]

\* A name met for the first time whose manifest can be read: the walk
\* recurses into its dependencies.
expand(r) ==
    [r EXCEPT !.visited = @ \cup {NextDependency(r)},
              !.expansions[NextDependency(r)] = @ + 1,
              !.edges = @ \cup {[from |-> Dependent(r),
                                 to |-> NextDependency(r), shared |-> FALSE]},
              !.stack = Append(Advance(@),
                               [node |-> NextDependency(r),
                                rest |-> DeclaredOrder(
                                    r.declared[NextDependency(r)].v)])]

\* A name met for the first time whose manifest is missing or unreadable:
\* the branch is skipped and the resolution goes on.
skipBranch(r) ==
    [r EXCEPT !.visited = @ \cup {NextDependency(r)},
              !.expansions[NextDependency(r)] = @ + 1,
              !.edges = @ \cup {[from |-> Dependent(r),
                                 to |-> NextDependency(r), shared |-> FALSE]},
              !.skipped = @ \cup {NextDependency(r)},
              !.stack = Advance(@)]

\* The call on top of the stack has looked at all its dependencies.
return(r) ==
    IF Len(r.stack) = 1
    THEN [r EXCEPT !.stack = <<>>, !.status = "done"]
    ELSE [r EXCEPT !.stack = SubSeq(@, 1, Len(@) - 1)]

\* buildPluginTree: the dependencies and requiredBy lists of the nodes.
buildPluginTree(r) ==
    [n \in r.visited |->
       [name |-> n,
        dependencies |-> {e.to : e \in {x \in r.edges : x.from = n}},
        requiredBy |-> {e.from : e \in {x \in r.edges : x.to = n}},
        isDependency |-> (n # r.root)]]

\* What the manifests of the crafts can declare.
Declarations ==
    [Names -> {None} \cup {Some(S) : S \in SUBSET Names}]

InitResolve ==
    /\ disk = [d \in Dirs |-> EmptyDir]
    /\ settings = DefaultSettings
    /\ manifest = NoManifest
    /\ lockfile = NoLockfile
    /\ last = NoOp
    /\ \E declared \in Declarations :
         /\ declared["beta"].has
         /\ resolver = startWalk("beta", declared)

Walking == resolver.status = "running" /\ resolver.stack # <<>>

Expand ==
    /\ Walking
    /\ resolver.stack[Len(resolver.stack)].rest # <<>>
    /\ NextDependency(resolver) \notin resolver.visited
    /\ resolver.declared[NextDependency(resolver)].has
    /\ resolver' = expand(resolver)
    /\ UNCHANGED <<disk, settings, manifest, lockfile, last>>

SkipBranch ==
    /\ Walking
    /\ resolver.stack[Len(resolver.stack)].rest # <<>>
    /\ NextDependency(resolver) \notin resolver.visited
    /\ ~resolver.declared[NextDependency(resolver)].has
    /\ resolver' = skipBranch(resolver)
    /\ UNCHANGED <<disk, settings, manifest, lockfile, last>>

RecordShared ==
    /\ Walking
    /\ resolver.stack[Len(resolver.stack)].rest # <<>>
    /\ NextDependency(resolver) \in resolver.visited
    /\ resolver' = recordShared(resolver)
    /\ UNCHANGED <<disk, settings, manifest, lockfile, last>>

Return ==
    /\ Walking
    /\ resolver.stack[Len(resolver.stack)].rest = <<>>
    /\ resolver' = return(resolver)
    /\ UNCHANGED <<disk, settings, manifest, lockfile, last>>

NextResolve == Expand \/ SkipBranch \/ RecordShared \/ Return

\* The walk is one call that runs to its end: a step that can be taken
\* is taken.
SpecResolve == InitResolve /\ [][NextResolve]_vars /\ WF_vars(NextResolve)

---------------------------------------------------------------------------
(* Properties.                                                             *)

\* The craft directory the last installCraft or removeCraft worked on.
LastDir == disk[CraftDir(last.type, last.name)]

Ran(step) == \E i \in 1..Len(last.steps) : last.steps[i] = step

\* The last operation was a registry installCraft with an integrity field
\* whose download completed.
VerifiedInstall(l) ==
    /\ l.op = "installCraft" /\ ~l.git /\ l.integrity # Absent
    /\ l.downloaded \in ArtifactIds

Mismatch(l) == VerifiedInstall(l) /\ Digest(l.downloaded) # l.integrity

\* C1: in a registry installation with an integrity field, the archive is
\* extracted only after the checksum comparison returned valid, and an
\* archive whose checksum differs from the integrity is never extracted.
C1_ExtractOnlyAfterValidChecksum ==
    VerifiedInstall(last) =>
      /\ \A i \in 1..Len(last.steps) :
           last.steps[i] \in {"extract", "extract:throw"} =>
             \E j \in 1..(i - 1) : last.steps[j] = "verify:valid"
      /\ Mismatch(last) => ~Ran("extract") /\ ~Ran("extract:throw")

C1_Witness ==
    /\ Mismatch(last) /\ last.downloaded = "tampered"
    /\ Ran("verify:invalid") /\ ~last.ok

\* C2 as claimed: after a checksum mismatch installCraft has failed with a
\* checksum error and the target directory holds neither the archive nor
\* any extracted file, whatever it held before.
C2_CleanDirectoryAfterMismatch ==
    Mismatch(last) =>
      /\ ~last.ok /\ last.err = "checksum"
      /\ ~LastDir.archive
      /\ LastDir.entries = {}
      /\ LastDir.manifest.kind = "none" /\ LastDir.mcpFile.kind = "none"

\* C2 amended: after a checksum mismatch installCraft has failed with a
\* checksum error, the target directory exists, archive.zip is absent
\* from it, and nothing was extracted: every other file of the directory,
\* every other directory and the settings are what they were before.
C2_MismatchLeavesOnlyPriorContent ==
    [][Mismatch(last') =>
         LET d == CraftDir(last'.type, last'.name)
         IN  /\ ~last'.ok /\ last'.err = "checksum"
             /\ disk' = [disk EXCEPT ![d] = [@ EXCEPT !.present = TRUE,
                                                       !.archive = FALSE]]
             /\ settings' = settings]_vars

C2_Witness ==
    /\ Mismatch(last) /\ last.err = "checksum"
    /\ LastDir.entries # {} /\ LastDir.meta.has /\ ~LastDir.archive

\* C9 as claimed: in a registry installation whose checksum step passed or
\* was skipped, archive.zip is absent from the target directory when
\* installCraft finishes, whether the extraction succeeded or threw.
C9_ArchiveDeletedAfterVerification ==
    (last.op = "installCraft" /\ ~last.git
       /\ (Ran("verify:valid") \/ Ran("verify:skipped")))
      => ~LastDir.archive

\* C8: after a git installation the temporary clone directory .tmp-git
\* does not exist, on every exit path, and its removal was the last step
\* of the git installation.
C8_TempCloneRemoved ==
    (last.op = "installCraft" /\ last.git) =>
      /\ ~LastDir.tmp
      /\ \A d \in Dirs : ~disk[d].tmp
      /\ Ran("removeTemp")

C8_Witness ==
    /\ last.op = "installCraft" /\ last.git /\ ~last.ok
    /\ Ran("clone") /\ Ran("copy:throw") /\ ~LastDir.tmp

\* C10: removeCraft never throws, a second removeCraft leaves the install
\* directory and the settings as the first one left them, and a
\* removeCraft of a craft whose directory is absent changes neither and
\* only warns.
C10_RemoveCraftIdempotent ==
    \A n \in Names, w1 \in BOOLEAN, w2 \in BOOLEAN :
      \A t \in {"skill", "agent", "command", "hook", "plugin", "widget"} :
        LET r1 == removeCraft(disk, settings, n, t, w1)
            r2 == removeCraft(r1.fs, r1.st, n, t, w2)
        IN  /\ r1.ok /\ r2.ok
            /\ r2.fs = r1.fs /\ r2.st = r1.st
            /\ ~r1.fs[CraftDir(t, n)].present
            /\ ~disk[CraftDir(t, n)].present =>
                 r1.fs = disk /\ r1.st = settings /\ r1.warned

C10_Witness ==
    /\ last.op = "removeCraft" /\ last.type = "plugin"
    /\ last.steps = <<"notInstalled">> /\ last.warned
    /\ settings.plugins[last.name].has

\* C6: when registerPlugin or a registerMCPServer call throws during the
\* installation of a plugin, installCraft still succeeds, the extracted
\* artifact and the metadata record are in place, and the failure is
\* reported as a warning.
C6_RegistrationFailureIsWarning ==
    (last.op = "installCraft" /\ last.type = "plugin"
       /\ (Ran("registerPlugin:throw") \/ Ran("registerMCPServer:throw")))
      => /\ last.ok /\ last.err = "" /\ last.warned
         /\ LastDir.present /\ LastDir.entries # {}
         /\ LastDir.meta.has
         /\ LastDir.meta.v.name = last.name /\ LastDir.meta.v.type = "plugin"

C6_Witness ==
    /\ last.op = "installCraft" /\ last.type = "plugin"
    /\ Ran("registerPlugin") /\ Ran("registerMCPServer")
    /\ Ran("registerMCPServer:throw")
    /\ last.ok /\ LastDir.meta.has

\* The list a registered or scanned component field stands for.
ListOf(opt) == IF opt.has THEN opt.v ELSE <<>>

\* C7: for each component type the registered list is the manifest's
\* declared list when the manifest declares the type, and the list
\* scanned from the installed tree otherwise.
C7_ComponentMerge ==
    (last.op = "installCraft" /\ last.type = "plugin" /\ Ran("registerPlugin"))
      => /\ settings.plugins[last.name].has
         /\ \A i \in 1..Len(ComponentTypes) :
              LET t == ComponentTypes[i]
                  m == LastDir.manifest
                  declares == /\ m.kind = "json" /\ m.components.has
                              /\ m.components.v[t].has
              IN  ListOf(settings.plugins[last.name].v.components[t]) =
                    IF declares THEN m.components.v[t].v
                    ELSE ListOf(scanPluginComponents(LastDir)[t])

C7_Witness ==
    /\ last.op = "installCraft" /\ last.type = "plugin" /\ Ran("registerPlugin")
    /\ LastDir.manifest = ManifestA
    /\ scanPluginComponents(LastDir).skills = Some(<<"a", "x">>)
    /\ settings.plugins[last.name].v.components.skills = Some(<<"a">>)
    /\ settings.plugins[last.name].v.components.agents = Some(<<"b">>)

\* C5: installFromLockfile calls installCraft for the crafts in the order
\* of lockfile.crafts and stops at the first failure: the crafts attempted
\* are a prefix of the lockfile, only the last attempt can have failed,
\* its error is the error installFromLockfile throws, and every craft
\* installed before it is on disk with its metadata record.
C5_BatchFailsFast ==
    last.op = "installFromLockfile" =>
      LET k == Len(last.attempted)
          done == IF last.ok THEN k ELSE k - 1
      IN  /\ k <= Len(last.names) /\ Len(last.outcomes) = k
          /\ last.attempted = SubSeq(last.names, 1, k)
          /\ \A i \in 1..done : last.outcomes[i] = ""
          /\ last.ok => k = Len(last.names) /\ last.err = ""
          /\ ~last.ok => /\ k >= 1 /\ last.outcomes[k] # ""
                         /\ last.err = last.outcomes[k]
          /\ \A i \in 1..done :
               LET dir == disk[CraftDir(TypeOf(last.names[i]), last.names[i])]
               IN  /\ dir.present /\ dir.entries # {}
                   /\ dir.meta.has /\ dir.meta.v.name = last.names[i]

C5_Witness ==
    /\ last.op = "installFromLockfile" /\ ~last.ok
    /\ Len(last.names) = Cardinality(Names)
    /\ Len(last.attempted) = Len(last.names) - 1
    /\ disk[CraftDir(TypeOf(last.names[1]), last.names[1])].meta.has
    /\ ~disk[CraftDir(TypeOf(last.names[3]), last.names[3])].present

\* C3 as claimed: remove without --force for a craft that a plugin tree
\* node lists in its dependencies fails, names every dependent and leaves
\* craftdesk.json, craftdesk.lock, the install directory and the settings
\* unchanged.
C3_RemoveRefusedNamesDependents ==
    [][(last'.op = "remove" /\ ~last'.force
          /\ Dependents(lockfile, last'.name) # {})
         => /\ ~last'.ok
            /\ last'.named = Dependents(lockfile, last'.name)
            /\ UNCHANGED <<manifest, lockfile, disk, settings>>]_vars

\* C3 amended: when craftdesk.json can be read, remove without --force
\* for such a craft fails, names every dependent and leaves the four
\* files unchanged; without a readable craftdesk.json it fails before it
\* looks at the lockfile, names nobody and changes nothing.
C3_RemoveRefusedWithManifest ==
    [][(last'.op = "remove" /\ ~last'.force
          /\ Dependents(lockfile, last'.name) # {})
         => /\ ~last'.ok
            /\ manifest.exists =>
                 /\ last'.err = "dependents"
                 /\ last'.named = Dependents(lockfile, last'.name)
            /\ ~manifest.exists => last'.err = "noManifest" /\ last'.named = {}
            /\ UNCHANGED <<manifest, lockfile, disk, settings>>]_vars

C3_Witness ==
    /\ last.op = "remove" /\ ~last.force /\ ~last.ok
    /\ last.err = "dependents"
    /\ last.named = Dependents(lockfile, last.name)
    /\ Cardinality(last.named) = Cardinality(Names) - 1

\* C4 as claimed: remove with --force for a craft listed in another
\* plugin's dependencies succeeds, and afterwards the name is a key of
\* neither crafts nor pluginTree and occurs in no dependencies or
\* requiredBy list.
C4_ForcedRemovePrunes ==
    [][(last'.op = "remove" /\ last'.force
          /\ Dependents(lockfile, last'.name) # {})
         => /\ last'.ok
            /\ lockfile'.exists
            /\ ~lockfile'.crafts[last'.name].has
            /\ lockfile'.pluginTree.has
            /\ ~lockfile'.pluginTree.v[last'.name].has
            /\ \A p \in Names :
                 lockfile'.pluginTree.v[p].has =>
                   /\ last'.name \notin lockfile'.pluginTree.v[p].v.dependencies
                   /\ last'.name \notin lockfile'.pluginTree.v[p].v.requiredBy]_vars


\* C11 as claimed: after a successful installCraft(name, entry) of any
\* kind, and as long as the craft's directory is not removed, listInstalled
\* returns the item {name, version: entry.version, type: entry.type}.
C11_InstalledCraftsAreListed ==
    /\ (last.op = "installCraft" /\ last.ok) =>
         [name |-> last.name, version |-> last.entry.v.version,
          type |-> last.type] \in listInstalled(disk)
    /\ \A d \in Dirs :
         (disk[d].present /\ disk[d].meta.has) =>
           [name |-> disk[d].meta.v.name, version |-> disk[d].meta.v.version,
            type |-> disk[d].meta.v.type] \in listInstalled(disk)

\* The directory <installRoot>/<kindDir>/<name> as C12 states it.
ClaimedDir(type, name) ==
    <<IF type = "skill" THEN "skills"
      ELSE IF type = "agent" THEN "agents"
      ELSE IF type = "command" THEN "commands"
      ELSE IF type = "hook" THEN "hooks"
      ELSE IF type = "plugin" THEN "plugins" ELSE "crafts", name>>

\* C12: a successful installCraft(name, entry) puts the craft, with its
\* metadata record, into <installRoot>/<kindDir>/<name> and changes no
\* other craft directory; a removeCraft(name, entry.type) of a craft
\* installed there deletes that directory and leaves every other craft
\* directory as it was.
C12_InstallAndRemoveAddressSameDirectory ==
    [][/\ (last'.op = "installCraft" /\ last'.ok) =>
            /\ disk'[ClaimedDir(last'.type, last'.name)].present
            /\ disk'[ClaimedDir(last'.type, last'.name)].meta =
                 Some([name |-> last'.name,
                       version |-> last'.entry.v.version,
                       type |-> last'.type])
            /\ \A o \in Dirs \ {ClaimedDir(last'.type, last'.name)} :
                 disk'[o] = disk[o]
       /\ (/\ last'.op = "removeCraft"
           /\ disk[ClaimedDir(last'.type, last'.name)].meta.has
           /\ disk[ClaimedDir(last'.type, last'.name)].meta.v.type = last'.type)
            => disk' = [disk EXCEPT
                          ![ClaimedDir(last'.type, last'.name)] = EmptyDir]]_vars

C12_Witness ==
    /\ last.op = "removeCraft" /\ last.name = "alpha" /\ last.type = "hook"
    /\ last.steps = <<"removeDir">>
    /\ ~disk[<<"hooks", "alpha">>].present
    /\ disk[<<"crafts", "alpha">>].meta.has
    /\ disk[<<"crafts", "gamma">>].meta.has
    /\ disk[<<"skills", "alpha">>].meta.has

\* The name, version and kind of the metadata records of an install
\* directory, per craft directory.
MetadataOf(fs) == [d \in Dirs |-> fs[d].meta]

\* The two-entry lockfiles of C13: an entry of alpha and the entry of
\* gamma, in either order, each with an archive that installs.
TwoCraftBatches ==
    LET Sound(n) == {r \in KindRuns : /\ r[1] = n /\ r[3].extract = "ok"
                                      /\ r[3].download = Published(n)}
    IN  {<<a, g>> : a \in Sound("alpha"), g \in Sound("gamma")}
        \cup {<<g, a>> : a \in Sound("alpha"), g \in Sound("gamma")}

BatchCrafts(b) == [i \in 1..Len(b) |-> [name |-> b[i][1], entry |-> b[i][2]]]

BatchOutcomes(b) == [i \in 1..Len(b) |-> b[i][3]]

\* C13: from any state, when installCraft for an entry (or
\* installFromLockfile for a lockfile) has succeeded, a second run with
\* the same entry (lockfile) that succeeds leaves every metadata record
\* with the same name, version and kind, and listInstalled returns the
\* same set of crafts as after the first run.
C13_InstallIdempotent ==
    /\ \A run \in KindRuns :
         LET r1 == installCraft(disk, settings, run[1], run[2], run[3])
             r2 == installCraft(r1.fs, r1.st, run[1], run[2], run[3])
         IN  (r1.ok /\ r2.ok) =>
               /\ MetadataOf(r2.fs) = MetadataOf(r1.fs)
               /\ listInstalled(r2.fs) = listInstalled(r1.fs)
    /\ \A b \in TwoCraftBatches :
         LET r1 == installFromLockfile(disk, settings, BatchCrafts(b),
                                       BatchOutcomes(b))
             r2 == installFromLockfile(r1.fs, r1.st, BatchCrafts(b),
                                       BatchOutcomes(b))
         IN  (r1.ok /\ r2.ok) =>
               /\ MetadataOf(r2.fs) = MetadataOf(r1.fs)
               /\ listInstalled(r2.fs) = listInstalled(r1.fs)

C13_Witness ==
    /\ last.op = "installCraft" /\ last.ok /\ last.type = "plugin"
    /\ Cardinality(listInstalled(disk)) >= 2
    /\ \E run \in KindRuns :
         /\ run[1] = last.name /\ run[2] = last.entry.v
         /\ LET r2 == installCraft(disk, settings, run[1], run[2], run[3])
            IN  /\ r2.ok
                /\ MetadataOf(r2.fs) = MetadataOf(disk)
                /\ listInstalled(r2.fs) = listInstalled(disk)

\* C14 as claimed: a git installation whose lock entry sets both path and
\* file is rejected: installCraft fails and nothing is copied from the
\* clone; every other git installation that succeeds ran exactly one of
\* the three copy modes.
C14_PathAndFileRejected ==
    (last.op = "installCraft" /\ last.git) =>
      /\ (last.entry.v.path # Absent /\ last.entry.v.file # Absent) =>
           /\ ~last.ok
           /\ ~Ran("copyFile") /\ ~Ran("copyPath") /\ ~Ran("copyRepo")
      /\ last.ok =>
           Cardinality({m \in {"copyFile", "copyPath", "copyRepo"} : Ran(m)}) = 1

\* C17: the plugin configuration registered by installCraft has as
\* dependencies the keys of the lock entry's dependencies, and its
\* isDependency flag is true exactly when installedAs is "dependency".
C17_RegisteredDependencies ==
    (last.op = "installCraft" /\ last.type = "plugin" /\ Ran("registerPlugin"))
      => /\ settings.plugins[last.name].has
         /\ settings.plugins[last.name].v.name = last.name
         /\ settings.plugins[last.name].v.dependencies =
              last.entry.v.dependencies
         /\ settings.plugins[last.name].v.isDependency =
              (last.entry.v.installedAs = "dependency")

C17_Witness ==
    /\ last.op = "installCraft" /\ last.type = "plugin" /\ Ran("registerPlugin")
    /\ last.entry.v.installedAs = "dependency"
    /\ settings.plugins[last.name].v.dependencies = {"alpha", "gamma"}
    /\ settings.plugins[last.name].v.isDependency

\* The place of a step in the order of a git install: clone, unshallow,
\* checkout, extraction, removal of the temporary clone.
GitStage(step) ==
    IF step \in {"clone", "clone:throw"} THEN 1
    ELSE IF step \in {"unshallow", "unshallow:throw"} THEN 2
    ELSE IF step \in {"checkout", "checkout:throw"} THEN 3
    ELSE IF step \in {"file:missing", "copyFile", "copyFile:throw",
                      "readdir:throw", "copy:throw", "copyRepo", "copyPath"}
    THEN 4
    ELSE IF step = "removeTemp" THEN 5 ELSE 0

\* The steps of the last install that belong to the git install.
GitSteps == SelectSeq(last.steps, LAMBDA s : GitStage(s) > 0)

Attempted(stage) == \E i \in 1..Len(GitSteps) : GitStage(GitSteps[i]) = stage

\* C19: a git install clones, unshallows, checks out, extracts and removes
\* the temporary clone in this order; it unshallows only when the entry has
\* a commit and the clone is shallow, and then before the checkout; an
\* entry without a commit triggers neither unshallow nor checkout.
C19_GitStepOrder ==
    (last.op = "installCraft" /\ last.git)
      => /\ \A i, j \in 1..Len(GitSteps) :
               i < j => GitStage(GitSteps[i]) < GitStage(GitSteps[j])
         /\ GitStage(GitSteps[1]) = 1
         /\ GitStage(GitSteps[Len(GitSteps)]) = 5
         /\ Attempted(2) => (last.entry.v.commit # Absent /\ last.shallow)
         /\ (Attempted(2) /\ Ran("unshallow")) => Attempted(3)
         /\ last.entry.v.commit = Absent => (~Attempted(2) /\ ~Attempted(3))
         /\ (last.ok /\ last.entry.v.commit # Absent) => Ran("checkout")
         /\ (last.ok /\ last.entry.v.commit # Absent /\ last.shallow)
              => Ran("unshallow")
         /\ last.ok => Attempted(4)

C19_Witness ==
    /\ last.op = "installCraft" /\ last.git /\ last.ok
    /\ GitSteps = <<"clone", "unshallow", "checkout", "copyRepo", "removeTemp">>

\* Steps that record a failed fetch, verification or extraction.
FailedSteps ==
    {"download:throw", "verify:invalid", "extract:throw", "clone:throw",
     "unshallow:throw", "checkout:throw", "file:missing", "copyFile:throw",
     "readdir:throw", "copy:throw"}

FetchSteps == {"download", "clone"}

ExtractSteps == {"extract", "copyFile", "copyRepo", "copyPath"}

RegisterSteps ==
    {"registerPlugin", "registerPlugin:throw", "registerMCPServer",
     "registerMCPServer:throw"}

\* What C20 says of one run of installCraft with the given steps.
MetadataAfterExtraction(steps) ==
    \A i \in 1..Len(steps) :
        /\ steps[i] = "metadata" =>
             /\ \A j \in 1..(i - 1) : steps[j] \notin FailedSteps
             /\ \E j \in 1..(i - 1) : steps[j] \in FetchSteps
             /\ \E j \in 1..(i - 1) : steps[j] \in ExtractSteps
             /\ \A j \in 1..(i - 1) : steps[j] \notin RegisterSteps
        /\ steps[i] \in RegisterSteps =>
             \E j \in 1..(i - 1) : steps[j] = "metadata"

\* C20: installCraft writes the metadata only after fetch, verification and
\* extraction succeeded and attempts the plugin registration only after the
\* metadata and only for a plugin; a failed installCraft leaves the
\* metadata as it was, and installCraft of another kind leaves the
\* settings as they were.
C20_MetadataAndRegistrationOrder ==
    [][last'.op = "installCraft" =>
         /\ MetadataAfterExtraction(last'.steps)
         /\ (\E i \in 1..Len(last'.steps) : last'.steps[i] \in RegisterSteps)
              => last'.type = "plugin"
         /\ last'.ok =>
              (\E i \in 1..Len(last'.steps) : last'.steps[i] = "metadata")
         /\ ~last'.ok =>
              disk'[CraftDir(last'.type, last'.name)].meta
                = disk[CraftDir(last'.type, last'.name)].meta
         /\ last'.type # "plugin" => settings' = settings]_vars

C20_Witness ==
    /\ last.op = "installCraft" /\ last.type = "plugin" /\ last.ok
    /\ last.steps = <<"ensureDir", "download", "verify:valid", "extract",
                      "removeArchive", "metadata", "registerPlugin">>
    /\ settings.plugins[last.name].has

\* The command reported a failure: it ended with a failure status, or it
\* counted the named craft among the crafts that failed to update.
ReportedFailure(name) ==
    \/ ~last.ok
    \/ \E i \in 1..Len(last.outcomes) :
         last.outcomes[i].name = name /\ ~last.outcomes[i].ok

\* C15: when git ls-remote fails while update or outdated checks a git
\* craft, the command reports a failure for it and does not treat the
\* craft as up to date.
C15_LsRemoteFailureSurfaced ==
    (last.op \in {"update", "outdated"} /\ last.lsRemote = "fail")
      => /\ ReportedFailure("gamma")
         /\ last.out \notin {"all up to date", "already up to date"}

\* C16: for a registry craft, outdated reports an update and update
\* installs one only when the version of the registry is strictly newer
\* than the version of the lock entry.
C16_RegistryUpdateOnlyToNewer ==
    last.op \in {"update", "outdated"} =>
      \A i \in 1..Len(last.updates) :
          last.updates[i].source = "registry" =>
            last.updates[i].latest > last.updates[i].current

\* The edges a finished walk has to hold: every dependency declared by
\* the root or by a craft that was expanded.
WalkedEdges(r) ==
    {<<p, n>> \in Names \X Names :
        /\ p \in r.visited /\ r.declared[p].has
        /\ n \in r.declared[p].v}

\* C18: resolvePluginDependencies terminates on every dependency graph,
\* cyclic or not: no name is expanded more than once, a name met again
\* is recorded as a shared edge of the tree and not expanded, and no
\* error is raised.
C18_ResolverTerminates ==
    /\ [](resolver.status # "idle" =>
            /\ resolver.status # "error"
            /\ \A n \in Names : resolver.expansions[n] <= 1
            /\ \A e \in resolver.edges :
                 e.shared => resolver.expansions[e.to] = 1
            /\ resolver.status = "done" =>
                 /\ {<<e.from, e.to>> : e \in resolver.edges}
                      = WalkedEdges(resolver)
                 /\ \A n \in resolver.visited \ {resolver.root} :
                      Cardinality({e \in resolver.edges :
                                     e.to = n /\ ~e.shared}) = 1
                 /\ \A e \in resolver.edges :
                      e.to = resolver.root => e.shared)
    /\ <>(resolver.status = "done")

\* The cycle beta -> alpha -> beta: the walk is done and the edge back to
\* the root is in the tree as a shared edge.
C18_Witness ==
    /\ resolver.status = "done"
    /\ resolver.declared["beta"].v = {"alpha"}
    /\ resolver.declared["alpha"].has
    /\ "beta" \in resolver.declared["alpha"].v
    /\ [from |-> "alpha", to |-> "beta", shared |-> TRUE] \in resolver.edges
    /\ "beta" \in buildPluginTree(resolver)["alpha"].dependencies
    /\ resolver.expansions["beta"] = 1

\* C21: update with --dry-run leaves the install directory, the lockfile,
\* craftdesk.json and the settings file as they were.
C21_DryRunChangesNothing ==
    [][(last'.op = "update" /\ last'.dryRun)
         => UNCHANGED <<disk, lockfile, manifest, settings>>]_vars

\* A dry run that found updates for both crafts and previewed them.
C21_Witness ==
    /\ last.op = "update" /\ last.dryRun /\ last.out = "preview"
    /\ Len(last.updates) = 2

\* The craft is installed: its directory holds the metadata record of the
\* version the lockfile records for it.
InstalledAsLocked(fs, l, n) ==
    /\ l.exists /\ l.crafts[n].has
    /\ fs[CraftDir(l.crafts[n].v.type, n)].present
    /\ fs[CraftDir(l.crafts[n].v.type, n)].meta.has
    /\ fs[CraftDir(l.crafts[n].v.type, n)].meta.v.version
         = l.crafts[n].v.version

\* C22: every craft that was installed and locked when the update command
\* started is installed when it ends, with the version the written
\* lockfile records, also when the installation of the new version failed.
C22_UpdateKeepsInstallations ==
    [][last'.op = "update" =>
         \A n \in Names :
             InstalledAsLocked(disk, lockfile, n)
               => InstalledAsLocked(disk', lockfile', n)]_vars

\* C23: every plugin registered in the settings file has its install
\* directory on disk.
C23_RegisteredPluginsHaveDirectory ==
    \A n \in Names :
        settings.plugins[n].has => disk[CraftDir("plugin", n)].present

\* The update of the craft succeeded in the run that ended in l.
UpdatedIn(l, n) ==
    \E i \in 1..Len(l.outcomes) : l.outcomes[i].name = n /\ l.outcomes[i].ok

\* C24: a craft that fails to update does not stop the update of the
\* remaining crafts; lockfile.crafts[name] is replaced only for the crafts
\* whose new version was installed, and every other lock entry is written
\* back unchanged.
C24_FailuresIsolatedPerCraft ==
    [][(last'.op = "update" /\ last'.out = "updated") =>
         /\ Len(last'.outcomes) = Len(last'.updates)
         /\ \A i \in 1..Len(last'.updates) :
              last'.outcomes[i].name = last'.updates[i].name
         /\ \A n \in Names :
              /\ UpdatedIn(last', n) =>
                   /\ lockfile'.crafts[n].has
                   /\ lockfile'.crafts[n] # lockfile.crafts[n]
                   /\ InstalledAsLocked(disk', lockfile', n)
              /\ ~UpdatedIn(last', n) =>
                   lockfile'.crafts[n] = lockfile.crafts[n]]_vars

\* The update of alpha failed and the update of gamma, the next craft,
\* went through.
C24_Witness ==
    /\ last.op = "update" /\ last.out = "updated"
    /\ last.outcomes = <<[name |-> "alpha", ok |-> FALSE],
                         [name |-> "gamma", ok |-> TRUE]>>
    /\ lockfile.crafts["gamma"].v.commit = "d00d1e0aaa"
    /\ InstalledAsLocked(disk, lockfile, "gamma")

\* C27: the lock entry the update command writes for an updated craft has
\* the installedAs value of the entry it replaces.
C27_UpdateKeepsInstalledAs ==
    [][last'.op = "update" =>
         \A n \in Names :
             UpdatedIn(last', n) =>
               lockfile'.crafts[n].v.installedAs
                 = lockfile.crafts[n].v.installedAs]_vars

\* C28 as claimed: registerPlugin and registerMCPServer of the
\* SettingsManager change only the entry of the given name: every other
\* plugin entry and every other MCP server entry of the settings file is
\* the same after the call as before it, also when the file cannot be read
\* or parsed at the time of the call.
C28_OnlyNamedEntryChanges ==
    [][/\ last'.op = "registerPlugin"
            => /\ \A n \in Names \ {last'.name} :
                    settings'.plugins[n] = settings.plugins[n]
               /\ settings'.mcpServers = settings.mcpServers
       /\ last'.op = "registerMCPServer"
            => /\ settings'.plugins = settings.plugins
               /\ settings'.mcpServers \ {last'.name}
                    = settings.mcpServers \ {last'.name}]_vars

\* C26 as claimed: when removeCraft unregisters a plugin whose installation
\* registered MCP servers and removes its directory, none of these servers
\* remain in the settings.  (beta is the only craft that registers
\* servers, so every server in the settings was registered by its
\* installation.)
C26_RemovedPluginLeavesNoServers ==
    [][(/\ last'.op = "removeCraft" /\ last'.type = "plugin"
        /\ last'.name = "beta"
        /\ settings.plugins["beta"].has
        /\ settings.mcpServers # {}
        /\ disk[CraftDir("plugin", "beta")].present
        /\ ~disk'[CraftDir("plugin", "beta")].present
        /\ ~settings'.plugins["beta"].has)
         => settings'.mcpServers = {}]_vars

\* name is a key of one of the four dependency fields of craftdesk.json.
DeclaredIn(m, name) ==
    m.exists /\ \E i \in 1..Len(DepFields) : InField(m, DepFields[i], name)

\* name is a key of crafts in craftdesk.lock.
LockedIn(l, name) == l.exists /\ l.crafts[name].has

\* C25 as claimed: when remove is run for a craft that is declared in
\* craftdesk.json and locked in craftdesk.lock, then at the end of the run,
\* whether it succeeds or exits with an error, the craft is in both files
\* or in neither.
C25_ManifestAndLockfileAgree ==
    [][(/\ last'.op = "remove"
        /\ DeclaredIn(manifest, last'.name)
        /\ LockedIn(lockfile, last'.name))
         => (DeclaredIn(manifest', last'.name)
               <=> LockedIn(lockfile', last'.name))]_vars

\* C29 as claimed: a lockfile with a metadata section that remove or update
\* has written records in metadata.totalCrafts the number of entries of
\* crafts.
C29_TotalCraftsCounted ==
    [][(/\ \/ /\ last'.op = "remove"
              /\ \E i \in 1..Len(last'.steps) : last'.steps[i] = "writeLockfile"
           \/ last'.op = "update" /\ last'.out = "updated"
        /\ lockfile'.metadata.has)
         => lockfile'.metadata.v.totalCrafts
              = Cardinality({n \in Names : lockfile'.crafts[n].has})]_vars

\* C30 as claimed: after a successful remove the name is a key of none of
\* the four dependency fields, and no dependency field that held a key
\* before the run is an empty object after it.
C30_NameLeavesEveryField ==
    [][(last'.op = "remove" /\ last'.ok)
         => /\ ~DeclaredIn(manifest', last'.name)
            /\ \A i \in 1..Len(DepFields) :
                 (/\ manifest.fields[DepFields[i]].has
                  /\ manifest.fields[DepFields[i]].v # {})
                   => \/ ~manifest'.fields[DepFields[i]].has
                      \/ manifest'.fields[DepFields[i]].v # {}]_vars

\* The crafts craftdesk.json declares in any of its dependency fields.
DeclaredCrafts ==
    UNION {manifest.fields[DepFields[i]].v :
             i \in {j \in 1..Len(DepFields) : manifest.fields[DepFields[j]].has}}

\* Projects as install leaves them: craftdesk.json exists, every craft it
\* declares is locked, and every locked craft is declared or is required
\* by a locked plugin.
InitProject ==
    /\ InitRemove
    /\ manifest.exists
    /\ lockfile.exists =>
         \A n \in Names :
           /\ n \in DeclaredCrafts => lockfile.crafts[n].has
           /\ lockfile.crafts[n].has =>
                \/ n \in DeclaredCrafts
                \/ /\ lockfile.pluginTree.has
                   /\ lockfile.pluginTree.v[n].v.requiredBy # {}

\* Runs of remove with every fault.
NextRemoveFaulty ==
    \E n \in Names, force \in BOOLEAN, w \in BOOLEAN, fault \in Faults :
        RemoveCommand(n, force, w, fault)

SpecProject == InitProject /\ [][NextRemoveFaulty]_vars

====
